---------------------------- MODULE Spec2Model ----------------------------
(***************************************************************************)
(* A model of the rust-raytracer: vector math, bounding boxes, spheres,    *)
(* the SAH kd-tree (SpacePartition), the recursive tracer (Scene), the     *)
(* render target with its PPM writer, and the NFF reader.                  *)
(*                                                                         *)
(* Numbers.  The program computes in f32.  The model computes in exact     *)
(* integers: coordinates are integers and ray directions have components   *)
(* in {-1, 0, 1}, so every quotient the modelled code forms is a quotient  *)
(* by 1 or -1 and every square root it takes is the root of a perfect      *)
(* square (inputs for which that is not so are not drawn).  On such inputs *)
(* the f32 arithmetic of the program is exact as well.                     *)
(***************************************************************************)
EXTENDS Integers, Sequences, FiniteSets, TLC

VARIABLES
    bq,         \* BoundingBox::intersect: the call and its result
    scene_primitives,   \* Scene.primitives: the shape of each primitive, in order
    partition,  \* the SpacePartition built from them
    kd_pc,      \* "scene", "built", "overflow" (the build ran out of stack), "queried"
    kq,         \* SpacePartition::intersect: the call and its result
    target,     \* the RenderTarget: width, height, values
    target_pc,  \* "none", "live", "panic" (an index out of the buffer)
    last_set,   \* history: for each pixel the color of its last set, if any
    sets,       \* history: how many set calls were made
    tg,         \* RenderTarget::get: the call and its result
    vq,         \* Vector::refracted: the call and its result
    tscene,     \* the traced Scene with its SpacePartition
    tstack,     \* the sub_trace calls in progress, the innermost last
    returned,   \* the color the last finished sub_trace returned
    trace_pc,   \* "idle", "ready" (scene built), "tracing", "done"
    tsteps,     \* history: the steps the sub_trace calls of a trace have taken
    rbackground,    \* render: the background of the scene, which has no primitives
    rtarget,    \* render: the RenderTarget
    ri, rj,     \* render: the pixel column and row the loops are at
    render_pc,  \* "idle", "rendering", "rendered", "written", "panic"
    ppm,        \* ppm::write: the file written
    use_phong,  \* nff::read: its argument
    nff_view,   \* nff::read: view
    nff_scene,  \* nff::read: scene
    nff_surface,    \* nff::read: surface, the current fill
    nff_pc,     \* the read_line the reader is at: "idle", "top", "view",
                \* "polygon", "cone_base", "cone_apex"
    nff_partial,    \* the locals of the parse function the reader is in
    nff_out,    \* "running", "ok" (Ok returned), "err" (Err returned), "panic"
    nff_last,   \* history: what the last read_line gave: "none", "eof",
                \* "skipped", "unrecognized", "command", "data"
    nlines,     \* history: the lines read so far
    nff_tokens, \* history: the tokens of the last line read dispatched on
    cq,         \* Cone::intersect: the call and its result
    pq          \* Polygon::intersect: the call and its result

boxVars == <<bq>>
kdVars == <<scene_primitives, partition, kd_pc, kq>>
targetVars == <<target, target_pc, last_set, sets, tg>>
vecVars == <<vq>>
traceVars == <<tscene, tstack, returned, trace_pc, tsteps>>
renderVars == <<rbackground, rtarget, ri, rj, render_pc, ppm>>
nffVars ==
    <<use_phong, nff_view, nff_scene, nff_surface, nff_pc, nff_partial, nff_out,
      nff_last, nlines, nff_tokens>>
shapeVars == <<cq, pq>>
vars ==
    <<boxVars, kdVars, targetVars, vecVars, traceVars, renderVars, nffVars, shapeVars>>

----------------------------------------------------------------------------
(* Bounds of the model.                                                    *)

\* Largest extent of a bounding box drawn for BoundingBox::intersect.
MaxExtent == 2

\* Deepest recursion of from_boxed_primitives the model follows.
MaxBuildDepth == 6

\* Most primitives in a scene.
MaxPrims == 4

\* Largest width and height of a render target.
MaxSide == 3

\* Most set calls on a render target.
MaxSets == 2

\* Unit vectors given to refracted have integer components in units of
\* 1 / VecScale.
VecScale == 5

\* Refraction indexes are the fractions p / q with p, q in 1 .. MaxIndex.
MaxIndex == 2

\* Most primitives in a traced scene.
MaxTracePrims == 3

\* Most steps of sub_trace the model follows in one trace.
MaxTraceSteps == 400

\* Most primitives of a scene whose tree is built without being queried.
MaxBuildPrims == 6

\* Most lines of an input outside the fields of its `v` blocks.
MaxLines == 5

----------------------------------------------------------------------------
(* f32 stand-ins.                                                          *)

\* std::f32::MAX; every value the model compares with it is far smaller.
F32_MAX == 1000000
F32_MIN == 0 - F32_MAX

\* a / b in f32, for b # 0 dividing a: the quotient is exact.
FDiv(a, b) == IF b > 0 THEN a \div b ELSE (0 - a) \div (0 - b)

\* f32::sqrt of a perfect square.
IsSquare(n) == n >= 0 /\ \E s \in 0 .. n : s * s = n
Sqrt(n) == CHOOSE s \in 0 .. n : s * s = n

Abs(a) == IF a < 0 THEN 0 - a ELSE a

----------------------------------------------------------------------------
(* vector_math.rs                                                          *)

Axes == {"X", "Y", "Z"}

Point(px, py, pz) == [x |-> px, y |-> py, z |-> pz]
Vector(vx, vy, vz) == [dx |-> vx, dy |-> vy, dz |-> vz]

Point_origin == Point(0, 0, 0)

Point_component(p, axis) ==
    CASE axis = "X" -> p.x
      [] axis = "Y" -> p.y
      [] axis = "Z" -> p.z

Vector_component(v, axis) ==
    CASE axis = "X" -> v.dx
      [] axis = "Y" -> v.dy
      [] axis = "Z" -> v.dz

\* Point + Vector
PointAdd(p, v) == Point(p.x + v.dx, p.y + v.dy, p.z + v.dz)
\* Point - Point
PointSub(p, q) == Vector(p.x - q.x, p.y - q.y, p.z - q.z)
\* Vector * f32
VectorMul(v, s) == Vector(v.dx * s, v.dy * s, v.dz * s)
VectorAdd(v, w) == Vector(v.dx + w.dx, v.dy + w.dy, v.dz + w.dz)
VectorSub(v, w) == Vector(v.dx - w.dx, v.dy - w.dy, v.dz - w.dz)
VectorNeg(v) == Vector(0 - v.dx, 0 - v.dy, 0 - v.dz)

dot(v1, v2) == v1.dx * v2.dx + v1.dy * v2.dy + v1.dz * v2.dz

\* The directions the model draws: components in {-1, 0, 1}.
Directions == {Vector(a, b, c) : a \in {-1, 0, 1}, b \in {-1, 0, 1}, c \in {-1, 0, 1}}
ZeroVector == Vector(0, 0, 0)

----------------------------------------------------------------------------
(* shape.rs: BoundingBox                                                   *)

BoundingBox(c, e) == [corner |-> c, extent |-> e]

BoundingBox_zero == BoundingBox(Point_origin, Vector(0, 0, 0))

min_corner(self) == self.corner
max_corner(self) == PointAdd(self.corner, self.extent)

Min(a, b) == IF a < b THEN a ELSE b
Max(a, b) == IF a > b THEN a ELSE b

surface_area(self) ==
    self.extent.dx * self.extent.dy * 2 +
    self.extent.dy * self.extent.dz * 2 +
    self.extent.dx * self.extent.dz * 2

face_area(self, axis) ==
    CASE axis = "X" -> self.extent.dy * self.extent.dz
      [] axis = "Y" -> self.extent.dx * self.extent.dz
      [] axis = "Z" -> self.extent.dx * self.extent.dy

expand_to_fit(self, other) ==
    LET min_x == Min(self.corner.x, other.corner.x)
        min_y == Min(self.corner.y, other.corner.y)
        min_z == Min(self.corner.z, other.corner.z)
        self_far_corner == PointAdd(self.corner, self.extent)
        other_far_corner == PointAdd(other.corner, other.extent)
        max_x == Max(self_far_corner.x, other_far_corner.x)
        max_y == Max(self_far_corner.y, other_far_corner.y)
        max_z == Max(self_far_corner.z, other_far_corner.z)
    IN  BoundingBox(Point(min_x, min_y, min_z),
                    Vector(max_x - min_x, max_y - min_y, max_z - min_z))

\* The x slab of BoundingBox::intersect (shape.rs 99-119): the pair
\* <<largest_near, smallest_far>> after it, or "miss" for the early return.
\* Both branches of the code assign to_max_plane to smallest_far.
SlabX(self, src, ray) ==
    LET to_min_plane == FDiv(self.corner.x - src.x, ray.dx)
        to_max_plane == FDiv(self.corner.x + self.extent.dx - src.x, ray.dx)
    IN  IF ray.dx # 0
        THEN IF to_min_plane < to_max_plane
             THEN [miss |-> FALSE, largest_near |-> to_min_plane,
                   smallest_far |-> to_max_plane]
             ELSE [miss |-> FALSE, largest_near |-> to_max_plane,
                   smallest_far |-> to_max_plane]
        ELSE IF src.x < self.corner.x \/ src.x > self.corner.x + self.extent.dx
             THEN [miss |-> TRUE, largest_near |-> F32_MIN, smallest_far |-> F32_MAX]
             ELSE [miss |-> FALSE, largest_near |-> F32_MIN, smallest_far |-> F32_MAX]

\* The y and z slabs (shape.rs 121-142 and 144-163), which share their code:
\* lo and hi are the slab's planes, s the source's coordinate, d the ray's.
SlabYZ(acc, lo, hi, s, d) ==
    LET to_min_plane == FDiv(lo - s, d)
        to_max_plane == FDiv(hi - s, d)
        near == IF to_min_plane < to_max_plane THEN to_min_plane ELSE to_max_plane
        far == IF to_min_plane < to_max_plane THEN to_max_plane ELSE to_min_plane
    IN  IF acc.miss THEN acc
        ELSE IF d # 0
        THEN [miss |-> FALSE,
              largest_near |-> IF near > acc.largest_near THEN near ELSE acc.largest_near,
              smallest_far |-> IF far < acc.smallest_far THEN far ELSE acc.smallest_far]
        ELSE IF s < lo \/ s > hi
             THEN [acc EXCEPT !.miss = TRUE]
             ELSE acc

\* The final test of BoundingBox::intersect (shape.rs 168).
SlabVerdict(largest_near, smallest_far, near_cull) ==
    smallest_far > largest_near /\ smallest_far >= near_cull

\* acc is the outcome of the three slabs.
SlabResult(acc, near_cull) ==
    IF acc.miss THEN FALSE
    ELSE SlabVerdict(acc.largest_near, acc.smallest_far, near_cull)

BoundingBox_intersect(self, src, ray, near_cull) ==
    SlabResult(
        SlabYZ(SlabYZ(SlabX(self, src, ray),
                      self.corner.y, self.corner.y + self.extent.dy, src.y, ray.dy),
               self.corner.z, self.corner.z + self.extent.dz, src.z, ray.dz),
        near_cull)

----------------------------------------------------------------------------
(* Option<T>                                                               *)

None == [some |-> FALSE]
Some(v) == [some |-> TRUE, val |-> v]

----------------------------------------------------------------------------
(* sphere.rs                                                               *)

Sphere(c, r) == [center |-> c, radius |-> r]

Sphere_bounding_box(self) ==
    BoundingBox(Point(self.center.x - self.radius,
                      self.center.y - self.radius,
                      self.center.z - self.radius),
                Vector(self.radius * 2, self.radius * 2, self.radius * 2))

\* Vector::magnitude and Vector::normalized, on vectors whose length is an
\* integer dividing every component.
magnitude(v) == Sqrt(v.dx * v.dx + v.dy * v.dy + v.dz * v.dz)
normalized(v) ==
    LET mag == magnitude(v)
    IN  Vector(FDiv(v.dx, mag), FDiv(v.dy, mag), FDiv(v.dz, mag))

\* The discriminant b^2 - 4ac of Sphere::intersect.
Sphere_b2m4ac(self, src, ray) ==
    LET sc == PointSub(src, self.center)
        a == dot(ray, ray)
        b == 2 * dot(ray, sc)
        c == dot(sc, sc) - self.radius * self.radius
    IN  b * b - 4 * a * c

\* Sphere::intersect once t is chosen (sphere.rs 67-75).
SphereHit(self, src, ray, near, t) ==
    IF t >= near
    THEN Some([normal |-> normalized(PointSub(PointAdd(src, VectorMul(ray, t)),
                                              self.center)),
               dist |-> t])
    ELSE None

\* The choice of the root (sphere.rs 62-65): the shorter one unless it is
\* behind the near plane.
SphereRoot(t1, t2, near) == IF t1 < near THEN t2 ELSE t1

\* Sphere::intersect from its coefficients a, b and the discriminant.
SphereSolve(self, src, ray, near, a, b, b2m4ac) ==
    IF b2m4ac >= 0
    THEN SphereHit(self, src, ray, near,
                   SphereRoot(FDiv((0 - b) - Sqrt(b2m4ac), 2 * a),
                              FDiv((0 - b) + Sqrt(b2m4ac), 2 * a), near))
    ELSE None

Sphere_intersect(self, src, ray, near) ==
    SphereSolve(self, src, ray, near,
                dot(ray, ray), 2 * dot(ray, PointSub(src, self.center)),
                Sphere_b2m4ac(self, src, ray))

\* The calls of Sphere::intersect the model computes exactly: the ray is
\* not zero and, when it meets the sphere, the root, both quotients and the
\* normal are integers.
Divides(d, n) == d # 0 /\ n % Abs(d) = 0
NormalExact(radius, n) ==
    /\ Divides(radius, Abs(n.dx))
    /\ Divides(radius, Abs(n.dy))
    /\ Divides(radius, Abs(n.dz))
RootsExact(self, src, ray, a, b, sq) ==
    /\ Divides(2 * a, Abs((0 - b) - sq))
    /\ Divides(2 * a, Abs((0 - b) + sq))
    /\ \A t \in {FDiv((0 - b) - sq, 2 * a), FDiv((0 - b) + sq, 2 * a)} :
         NormalExact(self.radius,
                     PointSub(PointAdd(src, VectorMul(ray, t)), self.center))
SphereExactFor(self, src, ray, a, b, b2m4ac) ==
    /\ ray # ZeroVector
    /\ b2m4ac >= 0 =>
         /\ IsSquare(b2m4ac)
         /\ RootsExact(self, src, ray, a, b, Sqrt(b2m4ac))
SphereExact(self, src, ray) ==
    SphereExactFor(self, src, ray,
                   dot(ray, ray), 2 * dot(ray, PointSub(src, self.center)),
                   Sphere_b2m4ac(self, src, ray))

----------------------------------------------------------------------------
(* cone.rs: Cone::intersect on cones whose axis lies along a coordinate     *)
(* axis, which makes the basis u, v, w of the code a basis of unit          *)
(* coordinate vectors.  The normal of the result is not modelled.           *)

Cone(base, apex, base_radius, apex_radius) ==
    [base |-> base, apex |-> apex, base_radius |-> base_radius,
     apex_radius |-> apex_radius]

cross(v1, v2) ==
    Vector(v1.dy * v2.dz - v1.dz * v2.dy,
           v1.dz * v2.dx - v1.dx * v2.dz,
           v1.dx * v2.dy - v1.dy * v2.dx)

\* The axis of w's smallest component (cone.rs 123-131).
shortest_w_component(w) ==
    IF Abs(w.dx) < Abs(w.dy) /\ Abs(w.dx) < Abs(w.dz) THEN Vector(1, 0, 0)
    ELSE IF Abs(w.dy) < Abs(w.dz) THEN Vector(0, 1, 0)
    ELSE Vector(0, 0, 1)

Cone_w(self) == normalized(PointSub(self.apex, self.base))
Cone_u(self) == cross(Cone_w(self), shortest_w_component(Cone_w(self)))
Cone_v(self) == cross(Cone_w(self), Cone_u(self))

\* A vector in the basis u, v, w (cone.rs 140-151).
Cone_uvw(self, vec) ==
    Vector(dot(vec, Cone_u(self)), dot(vec, Cone_v(self)), dot(vec, Cone_w(self)))

\* The coefficients of the quadratic (cone.rs 158-171).
Cone_a(ray_uvw, dr, mag) ==
    (ray_uvw.dx * ray_uvw.dx + ray_uvw.dy * ray_uvw.dy)
        - FDiv(dr * dr * ray_uvw.dz * ray_uvw.dz, mag * mag)
Cone_b(src_uvw, ray_uvw, base_radius, dr, mag) ==
    ((2 * src_uvw.dx * ray_uvw.dx + 2 * src_uvw.dy * ray_uvw.dy)
        - FDiv(2 * dr * dr * src_uvw.dz * ray_uvw.dz, mag * mag))
        + FDiv(2 * base_radius * dr * ray_uvw.dz, mag)
Cone_c(src_uvw, base_radius, dr, mag) ==
    (((src_uvw.dx * src_uvw.dx + src_uvw.dy * src_uvw.dy)
        - base_radius * base_radius)
        - FDiv(dr * dr * src_uvw.dz * src_uvw.dz, mag * mag))
        + FDiv(2 * base_radius * dr * src_uvw.dz, mag)

\* The root a call is given (cone.rs 188-195); -1 stands for none.
ConeResult(r1, r2, w1, w2, near, mag) ==
    IF r1 < r2 /\ r1 >= near /\ w1 >= 0 /\ w1 <= mag THEN r1
    ELSE IF r2 >= near /\ w2 >= 0 /\ w2 <= mag THEN r2
    ELSE 0 - 1

\* cone.rs 197-217.
ConeHit(result, near) == IF result >= near THEN Some([dist |-> result]) ELSE None

\* cone.rs 176-195, from the two roots.
ConeFromRoots(r1, r2, src_uvw, ray_uvw, near, mag) ==
    ConeHit(ConeResult(r1, r2,
                       r1 * ray_uvw.dz + src_uvw.dz,
                       r2 * ray_uvw.dz + src_uvw.dz, near, mag),
            near)

\* cone.rs 173-177.
ConeSolve(a, b, b2m4ac, src_uvw, ray_uvw, near, mag) ==
    IF b2m4ac >= 0
    THEN ConeFromRoots(FDiv((0 - b) - Sqrt(b2m4ac), 2 * a),
                       FDiv((0 - b) + Sqrt(b2m4ac), 2 * a),
                       src_uvw, ray_uvw, near, mag)
    ELSE None

Cone_b2m4ac(a, b, c) == b * b - 4 * a * c

ConeQuadratic(self, src_uvw, ray_uvw, near, dr, mag) ==
    ConeSolve(Cone_a(ray_uvw, dr, mag),
              Cone_b(src_uvw, ray_uvw, self.base_radius, dr, mag),
              Cone_b2m4ac(Cone_a(ray_uvw, dr, mag),
                          Cone_b(src_uvw, ray_uvw, self.base_radius, dr, mag),
                          Cone_c(src_uvw, self.base_radius, dr, mag)),
              src_uvw, ray_uvw, near, mag)

Cone_intersect(self, src, ray, near) ==
    ConeQuadratic(self, Cone_uvw(self, PointSub(src, self.base)), Cone_uvw(self, ray),
                  near, self.base_radius - self.apex_radius,
                  magnitude(PointSub(self.apex, self.base)))

\* The calls the model computes exactly: every quotient is an integer, the
\* quadratic coefficient is not zero and the discriminant, when it is not
\* negative, is a perfect square.
ConeRootsExact(a, b, b2m4ac) ==
    /\ a # 0
    /\ b2m4ac >= 0 =>
         /\ IsSquare(b2m4ac)
         /\ Divides(2 * a, Abs((0 - b) - Sqrt(b2m4ac)))
         /\ Divides(2 * a, Abs((0 - b) + Sqrt(b2m4ac)))
ConeExactFor(self, src_uvw, ray_uvw, dr, mag) ==
    /\ Divides(mag * mag, Abs(dr * dr * ray_uvw.dz * ray_uvw.dz))
    /\ Divides(mag * mag, Abs(2 * dr * dr * src_uvw.dz * ray_uvw.dz))
    /\ Divides(mag * mag, Abs(dr * dr * src_uvw.dz * src_uvw.dz))
    /\ Divides(mag, Abs(2 * self.base_radius * dr * ray_uvw.dz))
    /\ Divides(mag, Abs(2 * self.base_radius * dr * src_uvw.dz))
    /\ ConeRootsExact(Cone_a(ray_uvw, dr, mag),
                      Cone_b(src_uvw, ray_uvw, self.base_radius, dr, mag),
                      Cone_b2m4ac(Cone_a(ray_uvw, dr, mag),
                                  Cone_b(src_uvw, ray_uvw, self.base_radius, dr, mag),
                                  Cone_c(src_uvw, self.base_radius, dr, mag)))
ConeExact(self, src, ray) ==
    ConeExactFor(self, Cone_uvw(self, PointSub(src, self.base)), Cone_uvw(self, ray),
                 self.base_radius - self.apex_radius,
                 magnitude(PointSub(self.apex, self.base)))

\* A cone, a cylinder and two frustums along z, and a cone along x.
ConeChoices ==
    {Cone(Point(0, 0, 0), Point(0, 0, 2), 2, 0),
     Cone(Point(0, 0, 0), Point(0, 0, 2), 1, 1),
     Cone(Point(0, 0, 0), Point(0, 0, 2), 3, 1),
     Cone(Point(0, 0, 0), Point(0, 0, 2), 1, 3),
     Cone(Point(0, 0, 0), Point(2, 0, 0), 2, 0)}

ConeCoords == {0 - 5, 0 - 1, 0, 1, 3, 7}
ConeSources == {Point(a, b, c) : a \in ConeCoords, b \in {0 - 1, 0, 1}, c \in ConeCoords}
ConeNears == {0, 1}

ConeIdle == [done |-> FALSE, cone |-> Cone(Point_origin, Point_origin, 0, 0),
             src |-> Point_origin, ray |-> ZeroVector, near |-> 0, result |-> None]

ConeInit == cq = ConeIdle

ConeCall ==
    /\ ~cq.done
    /\ \E cone \in ConeChoices, src \in ConeSources, ray \in Directions \ {ZeroVector},
          near \in ConeNears :
         /\ ConeExact(cone, src, ray)
         /\ cq' = [done |-> TRUE, cone |-> cone, src |-> src, ray |-> ray,
                   near |-> near, result |-> Cone_intersect(cone, src, ray, near)]

\* The distances at which the ray meets the infinitely extended cone.
ConeRoots(self, src, ray) ==
    {t \in 0 - 40 .. 40 :
        Cone_a(Cone_uvw(self, ray), self.base_radius - self.apex_radius,
               magnitude(PointSub(self.apex, self.base))) * t * t
          + Cone_b(Cone_uvw(self, PointSub(src, self.base)), Cone_uvw(self, ray),
                   self.base_radius, self.base_radius - self.apex_radius,
                   magnitude(PointSub(self.apex, self.base))) * t
          + Cone_c(Cone_uvw(self, PointSub(src, self.base)), self.base_radius,
                   self.base_radius - self.apex_radius,
                   magnitude(PointSub(self.apex, self.base))) = 0}

\* The root t is >= near and its point lies within [0, L] along the axis.
ConeAccepts(self, src, ray, near, t) ==
    /\ t >= near
    /\ t * Cone_uvw(self, ray).dz + Cone_uvw(self, PointSub(src, self.base)).dz >= 0
    /\ t * Cone_uvw(self, ray).dz + Cone_uvw(self, PointSub(src, self.base)).dz
          <= magnitude(PointSub(self.apex, self.base))

\* The roots the spec's rule accepts.
ConeAccepted(self, src, ray, near) ==
    {t \in ConeRoots(self, src, ray) : ConeAccepts(self, src, ray, near, t)}

\* The smaller root if accepted, else the larger if accepted, else a miss.
SmallestAccepted(result, accepted) ==
    IF accepted = {} THEN ~result.some
    ELSE /\ result.some
         /\ result.val.dist \in accepted
         /\ \A t \in accepted : result.val.dist <= t

\* C26: Cone::intersect returns the smaller root of the quadratic when
\* its point lies within [0, L] along the axis and the root is >= near,
\* otherwise the larger root under the same conditions, otherwise a miss,
\* whichever sign the quadratic coefficient a has.
C26_SmallerThenLarger ==
    cq.done => SmallestAccepted(cq.result, ConeAccepted(cq.cone, cq.src, cq.ray, cq.near))

----------------------------------------------------------------------------
(* polygon.rs: a Polygon is the sequence of its vertices' points, each the  *)
(* sequence of its three coordinates; the normals play no part in the box. *)

\* The Polygon of parse_polygon; its normal is not modelled.
Polygon(points) == [vertices |-> points]

RECURSIVE CoordMin(_, _, _, _)
CoordMin(vertices, k, i, least) ==
    IF i > Len(vertices) THEN least
    ELSE CoordMin(vertices, k, i + 1,
                  IF vertices[i][k] < least THEN vertices[i][k] ELSE least)

RECURSIVE CoordMax(_, _, _, _)
CoordMax(vertices, k, i, most) ==
    IF i > Len(vertices) THEN most
    ELSE CoordMax(vertices, k, i + 1,
                  IF vertices[i][k] > most THEN vertices[i][k] ELSE most)

PolygonBox(min_x, max_x, min_y, max_y, min_z, max_z) ==
    BoundingBox(Point(min_x, min_y, min_z),
                Vector(max_x - min_x, max_y - min_y, max_z - min_z))

\* Polygon::bounding_box (polygon.rs 11-56).
Polygon_bounding_box(self) ==
    PolygonBox(CoordMin(self.vertices, 1, 2, self.vertices[1][1]),
               CoordMax(self.vertices, 1, 2, self.vertices[1][1]),
               CoordMin(self.vertices, 2, 2, self.vertices[1][2]),
               CoordMax(self.vertices, 2, 2, self.vertices[1][2]),
               CoordMin(self.vertices, 3, 2, self.vertices[1][3]),
               CoordMax(self.vertices, 3, 2, self.vertices[1][3]))

\* shape.bounding_box() on a Box<dyn Shape>.
Shape_bounding_box(shape) ==
    IF "radius" \in DOMAIN shape THEN Sphere_bounding_box(shape)
    ELSE Polygon_bounding_box(shape)

----------------------------------------------------------------------------
(* polygon.rs: Polygon::intersect on polygons whose major plane is x-y     *)
(* (polygon.rs 109-164).  The quotient scale is kept as the pair of its    *)
(* numerator and denominator and compared by cross-multiplication; the     *)
(* normal of the result is not modelled.                                   *)

\* &Point - &Point on the points of a polygon.
VertexSub(p, q) == Vector(p[1] - q[1], p[2] - q[2], p[3] - q[3])

\* polygon.rs 61-63.
geometric_normal(self) ==
    cross(VertexSub(self.vertices[2], self.vertices[1]),
          VertexSub(self.vertices[3], self.vertices[1]))

\* The vertex after vertex i (polygon.rs 115-116).
NextVertex(self, i) == self.vertices[(i % Len(self.vertices)) + 1]

\* What the loop does with the edge from point to next_point (polygon.rs
\* 117-162): "skip", "forward" (counted) or "reverse".  scale is
\* (in_plane.y - next_point.y) / edge.dy.
EdgeClass(edge, next_point, in_plane) ==
    IF edge.dy = 0 THEN "skip"
    ELSE IF (in_plane.y - next_point[2]) * edge.dy < 0 THEN "skip"
    ELSE IF ((in_plane.y - next_point[2]) - edge.dy) * edge.dy > 0 THEN "skip"
    ELSE IF ((in_plane.y - next_point[2]) * edge.dx
                + (next_point[1] - in_plane.x) * edge.dy) * edge.dy >= 0
         THEN "forward"
         ELSE "reverse"

EdgesOfClass(self, in_plane, class) ==
    {i \in 1 .. Len(self.vertices) :
        EdgeClass(VertexSub(self.vertices[i], NextVertex(self, i)),
                  NextVertex(self, i), in_plane) = class}

\* polygon.rs 259-292: an even edge_intersection_count is a miss, and so
\* is a missing forward or reverse edge.
PolygonVerdict(edge_intersection_count, reverse_count, src_to_plane_dist) ==
    IF edge_intersection_count % 2 = 0 THEN None
    ELSE IF reverse_count = 0 THEN None
    ELSE Some([dist |-> src_to_plane_dist])

PolygonTrace(self, in_plane, src_to_plane_dist) ==
    PolygonVerdict(Cardinality(EdgesOfClass(self, in_plane, "forward")),
                   Cardinality(EdgesOfClass(self, in_plane, "reverse")),
                   src_to_plane_dist)

\* polygon.rs 76-100.
PolygonAtDist(self, src, ray, near, src_to_plane_dist) ==
    IF src_to_plane_dist < near THEN None
    ELSE PolygonTrace(self, PointAdd(src, VectorMul(ray, src_to_plane_dist)),
                      src_to_plane_dist)

\* src as a vertex is.
AsVertex(p) == <<p.x, p.y, p.z>>

\* polygon.rs 65-74.
PolygonFrom(self, src, ray, near, den, num) ==
    IF den = 0 THEN None
    ELSE PolygonAtDist(self, src, ray, near, FDiv(num, den))

Polygon_intersect(self, src, ray, near) ==
    PolygonFrom(self, src, ray, near,
                dot(ray, geometric_normal(self)),
                dot(VertexSub(self.vertices[1], AsVertex(src)), geometric_normal(self)))

\* The calls the model computes exactly: the major plane is x-y, the
\* distance to the plane is an integer and every edge's dy is 0 or a power
\* of two, so that every scale is a binary fraction.
MajorPlaneXY(n) == Abs(n.dz) > Abs(n.dx) /\ Abs(n.dz) > Abs(n.dy)
PolygonExact(self, src, ray) ==
    /\ MajorPlaneXY(geometric_normal(self))
    /\ dot(ray, geometric_normal(self)) # 0 =>
          Divides(dot(ray, geometric_normal(self)),
                  Abs(dot(VertexSub(self.vertices[1], AsVertex(src)),
                          geometric_normal(self))))
    /\ \A i \in 1 .. Len(self.vertices) :
          Abs(VertexSub(self.vertices[i], NextVertex(self, i)).dy) \in {0, 1, 2, 4}

\* A square, a diamond, a triangle and a chevron with a concave vertex, in
\* the plane z = 0.
PolygonChoices ==
    {Polygon(<< <<0, 0, 0>>, <<4, 0, 0>>, <<4, 4, 0>>, <<0, 4, 0>> >>),
     Polygon(<< <<2, 0, 0>>, <<4, 2, 0>>, <<2, 4, 0>>, <<0, 2, 0>> >>),
     Polygon(<< <<0, 0, 0>>, <<4, 0, 0>>, <<2, 4, 0>> >>),
     Polygon(<< <<0, 0, 0>>, <<2, 2, 0>>, <<4, 0, 0>>, <<2, 4, 0>> >>)}

PolygonSources == {Point(a, b, c) : a \in 0 - 1 .. 5, b \in 0 - 1 .. 5, c \in {0 - 2, 1}}
PolygonRays == {Vector(0, 0, 1), Vector(0, 0, 0 - 1), Vector(1, 0, 0 - 1), Vector(1, 0, 0)}
PolygonNears == {0, 2}

PolygonIdle == [done |-> FALSE, polygon |-> Polygon(<<>>), src |-> Point_origin,
                ray |-> ZeroVector, near |-> 0, result |-> None]

PolygonInit == pq = PolygonIdle

PolygonCall ==
    /\ ~pq.done
    /\ \E polygon \in PolygonChoices, src \in PolygonSources, ray \in PolygonRays,
          near \in PolygonNears :
         /\ PolygonExact(polygon, src, ray)
         /\ pq' = [done |-> TRUE, polygon |-> polygon, src |-> src, ray |-> ray,
                   near |-> near,
                   result |-> Polygon_intersect(polygon, src, ray, near)]

\* The ray meets the plane of the polygon at distance t.
MeetsPlaneAt(self, src, ray, t) ==
    dot(VertexSub(self.vertices[1], AsVertex(PointAdd(src, VectorMul(ray, t)))),
        geometric_normal(self)) = 0

\* The point p of the plane lies on the edge from a to b.
OnEdge(p, a, b) ==
    /\ (b[1] - a[1]) * (p.y - a[2]) = (b[2] - a[2]) * (p.x - a[1])
    /\ Min(a[1], b[1]) <= p.x /\ p.x <= Max(a[1], b[1])
    /\ Min(a[2], b[2]) <= p.y /\ p.y <= Max(a[2], b[2])

OnBoundary(self, p) ==
    \E i \in 1 .. Len(self.vertices) : OnEdge(p, self.vertices[i], NextVertex(self, i))

\* The 2D ray cast from p along x crosses the edge from a to b, a vertex
\* on the ray counting for the edge that rises from it or falls to it
\* only.
CrossesEdge(p, a, b) ==
    /\ (a[2] > p.y) # (b[2] > p.y)
    /\ ((a[1] - p.x) * (b[2] - a[2]) + (p.y - a[2]) * (b[1] - a[1])) * (b[2] - a[2]) > 0

\* p lies inside the polygon: the 2D ray crosses an odd number of edges.
InsidePolygon(self, p) ==
    Cardinality({i \in 1 .. Len(self.vertices) :
                    CrossesEdge(p, self.vertices[i], NextVertex(self, i))}) % 2 = 1

\* The result is a hit exactly when the plane point at distance t, off
\* the boundary, is inside.
HitIffInside(self, result, p) ==
    ~OnBoundary(self, p) => (result.some <=> InsidePolygon(self, p))

\* C27: for a planar polygon, convex or not, and a ray that meets its
\* plane at a distance >= near, Polygon::intersect returns a hit exactly
\* when the plane point lies inside the polygon by the parity of edge
\* crossings, plane points whose 2D ray passes through a vertex included.
C27_HitIffInside ==
    pq.done =>
        \A t \in pq.near .. 4 :
            (dot(pq.ray, geometric_normal(pq.polygon)) # 0
                /\ MeetsPlaneAt(pq.polygon, pq.src, pq.ray, t))
              => HitIffInside(pq.polygon, pq.result,
                              PointAdd(pq.src, VectorMul(pq.ray, t)))

----------------------------------------------------------------------------
(* space_partition.rs: building the tree                                   *)
(*                                                                         *)
(* A Primitive is named by its index in the scene's primitive list: the    *)
(* tree holds references into that list.  BoxedPrimitive(&Primitive,       *)
(* BoundingBox) is the record [prim, bbox].                                 *)

BoxedPrimitive(p, b) == [prim |-> p, bbox |-> b]

Leaf(bbox, prims) == [kind |-> "Leaf", bounding_box |-> bbox, primitives |-> prims]
Interior(bbox, over, under, axis, plane) ==
    [kind |-> "Interior", bounding_box |-> bbox, over |-> over, under |-> under,
     axis |-> axis, plane |-> plane]
\* The call stack ran out: the recursion of from_boxed_primitives went
\* deeper than MaxBuildDepth.
StackOverflow(bbox) == [kind |-> "StackOverflow", bounding_box |-> bbox]

appraise(primitive_count, bounding_box) ==
    surface_area(bounding_box) * primitive_count

\* One iteration of the loop of appraise_split (space_partition.rs 110-128).
AppraiseStep(acc, bounding_box, axis, plane) ==
    LET in_under == Point_component(min_corner(bounding_box), axis) < plane
        in_over == Point_component(max_corner(bounding_box), axis) >= plane
        new_under_box == IF acc.under_box.some
                         THEN expand_to_fit(acc.under_box.val, bounding_box)
                         ELSE bounding_box
        new_over_box == IF acc.over_box.some
                        THEN expand_to_fit(acc.over_box.val, bounding_box)
                        ELSE bounding_box
    IN  [under_count |-> IF in_under THEN acc.under_count + 1 ELSE acc.under_count,
         over_count |-> IF in_over THEN acc.over_count + 1 ELSE acc.over_count,
         under_box |-> IF in_under THEN Some(new_under_box) ELSE acc.under_box,
         over_box |-> IF in_over THEN Some(new_over_box) ELSE acc.over_box]

RECURSIVE AppraiseLoop(_, _, _, _, _)
AppraiseLoop(primitives, axis, plane, i, acc) ==
    IF i > Len(primitives) THEN acc
    ELSE AppraiseLoop(primitives, axis, plane, i + 1,
                      AppraiseStep(acc, primitives[i].bbox, axis, plane))

\* The cost appraise_split gives the two groups (space_partition.rs 130-142).
SplitCost(under_count, under_box, over_count, over_box) ==
    IF under_box.some
    THEN IF over_box.some
         THEN appraise(under_count, under_box.val) + appraise(over_count, over_box.val)
         ELSE appraise(under_count, under_box.val)
    ELSE IF over_box.some
         THEN appraise(over_count, over_box.val)
         ELSE 0

\* The SplitAppraisal of the groups the loop gathered.
SplitAppraisal(acc) ==
    [under_box |-> acc.under_box,
     over_box |-> acc.over_box,
     cost |-> SplitCost(acc.under_count, acc.under_box,
                        acc.over_count, acc.over_box)]

appraise_split(primitives, axis, plane) ==
    SplitAppraisal(AppraiseLoop(primitives, axis, plane, 1,
                       [under_count |-> 0, over_count |-> 0,
                        under_box |-> None, over_box |-> None]))

\* One candidate plane of find_splitting_plane (space_partition.rs 57-64
\* and 67-74): best is [min_cost, best_plane, best_under_box, best_over_box].
KeepBetter(best, plane, appraisal) ==
    IF appraisal.cost < best.min_cost
    THEN [min_cost |-> appraisal.cost, best_plane |-> plane,
          best_under_box |-> appraisal.under_box,
          best_over_box |-> appraisal.over_box]
    ELSE best

Consider(best, primitives, axis, plane) ==
    KeepBetter(best, plane, appraise_split(primitives, axis, plane))

RECURSIVE PlaneLoop(_, _, _, _)
PlaneLoop(primitives, axis, i, best) ==
    IF i > Len(primitives) THEN best
    ELSE PlaneLoop(primitives, axis, i + 1,
             Consider(Consider(best, primitives, axis,
                          Point_component(min_corner(primitives[i].bbox), axis)),
                      primitives, axis,
                      Point_component(max_corner(primitives[i].bbox), axis)))

\* The fewest primitives find_splitting_plane splits (space_partition.rs 44).
MinSplitCount == 4

\* The end of find_splitting_plane (space_partition.rs 77-96).
Decide(best, no_split_cost) ==
    IF ~best.best_over_box.some THEN None
    ELSE IF ~best.best_under_box.some THEN None
    ELSE IF best.min_cost < no_split_cost
         THEN Some([under_box |-> best.best_under_box.val,
                    over_box |-> best.best_over_box.val,
                    plane |-> best.best_plane])
         ELSE None

find_splitting_plane(primitives, axis, no_split_cost) ==
    IF Len(primitives) < MinSplitCount THEN None
    ELSE Decide(PlaneLoop(primitives, axis, 1,
                    [min_cost |-> no_split_cost, best_plane |-> 0,
                     best_under_box |-> None, best_over_box |-> None]),
                no_split_cost)

\* A variant of the under test that keeps only what ends below the plane.
GoesUnder_Below(bounding_box, axis, plane) ==
    Point_component(max_corner(bounding_box), axis) < plane

\* The two tests of split (space_partition.rs 163 and 166).
GoesOver(bounding_box, axis, plane) ==
    Point_component(max_corner(bounding_box), axis) > plane
GoesUnder(bounding_box, axis, plane) ==
    Point_component(min_corner(bounding_box), axis) <= plane

split(boxed_primitives, axis, plane) ==
    LET KeepOver(bp) == GoesOver(bp.bbox, axis, plane)
        KeepUnder(bp) == GoesUnder(bp.bbox, axis, plane)
    IN  [over |-> SelectSeq(boxed_primitives, KeepOver),
         under |-> SelectSeq(boxed_primitives, KeepUnder)]

\* A variant that runs the cycle backwards.
advance_Backwards(axis) ==
    CASE axis = "X" -> "Z"
      [] axis = "Y" -> "X"
      [] axis = "Z" -> "Y"

advance(axis) ==
    CASE axis = "X" -> "Y"
      [] axis = "Y" -> "Z"
      [] axis = "Z" -> "X"

\* depth counts the enclosing calls of from_boxed_primitives: the program's
\* stack is finite, and the model gives up at MaxBuildDepth.
RECURSIVE from_boxed_primitives(_, _, _, _)

\* The Some arm of from_boxed_primitives (space_partition.rs 239-256).
BuildInterior(halves, axis, bounding_box, decision, depth) ==
    Interior(bounding_box,
             from_boxed_primitives(halves.over, advance(axis),
                                   decision.over_box, depth + 1),
             from_boxed_primitives(halves.under, advance(axis),
                                   decision.under_box, depth + 1),
             axis, decision.plane)

\* The match of from_boxed_primitives (space_partition.rs 230-257).
BuildNode(boxed_primitives, axis, bounding_box, decision, depth) ==
    IF ~decision.some
    THEN Leaf(bounding_box,
              [i \in 1 .. Len(boxed_primitives) |-> boxed_primitives[i].prim])
    ELSE IF depth >= MaxBuildDepth
    THEN StackOverflow(bounding_box)
    ELSE BuildInterior(split(boxed_primitives, axis, decision.val.plane),
                       axis, bounding_box, decision.val, depth)

from_boxed_primitives(boxed_primitives, axis, bounding_box, depth) ==
    BuildNode(boxed_primitives, axis, bounding_box,
              find_splitting_plane(boxed_primitives, axis,
                                   appraise(Len(boxed_primitives), bounding_box)),
              depth)

RECURSIVE TotalBox(_, _, _)
TotalBox(shapes, i, total_box) ==
    IF i > Len(shapes) THEN total_box
    ELSE TotalBox(shapes, i + 1,
                  expand_to_fit(total_box, Shape_bounding_box(shapes[i])))

\* shapes[i] is the shape of primitive i.
from_primitives(shapes) ==
    IF Len(shapes) = 0
    THEN Leaf(BoundingBox_zero, <<>>)
    ELSE from_boxed_primitives(
             [i \in 1 .. Len(shapes) |->
                 BoxedPrimitive(i, Shape_bounding_box(shapes[i]))],
             "X", TotalBox(shapes, 2, Shape_bounding_box(shapes[1])), 0)

----------------------------------------------------------------------------
(* space_partition.rs: traversal                                           *)
(*                                                                         *)
(* ignore is the index of the primitive whose shape is ignored, 0 for      *)
(* None: two shape references are equal exactly when they are the same     *)
(* primitive's.                                                            *)

\* One iteration of the loop of intersect_primitives
\* (space_partition.rs 360-383).
better_result_found(best_result, intersection) ==
    IF best_result.some
    THEN intersection.dist < best_result.val.dist
    ELSE TRUE

\* The body of the loop after the ignore test (space_partition.rs 368-382).
KeepNearest(best_result, primitive, intersection) ==
    IF intersection.some /\ better_result_found(best_result, intersection.val)
    THEN Some([normal |-> intersection.val.normal,
               dist |-> intersection.val.dist,
               primitive |-> primitive])
    ELSE best_result

\* The loop body without the test of the ignored shape.
ScanStep_NoIgnore(best_result, primitive, shapes, src, ray, near, ignore) ==
    KeepNearest(best_result, primitive,
                Sphere_intersect(shapes[primitive], src, ray, near))

ScanStep(best_result, primitive, shapes, src, ray, near, ignore) ==
    IF ignore # 0 /\ ignore = primitive THEN best_result
    ELSE KeepNearest(best_result, primitive,
                     Sphere_intersect(shapes[primitive], src, ray, near))

RECURSIVE ScanLoop(_, _, _, _, _, _, _, _)
ScanLoop(primitives, i, best_result, shapes, src, ray, near, ignore) ==
    IF i > Len(primitives) THEN best_result
    ELSE ScanLoop(primitives, i + 1,
                  ScanStep(best_result, primitives[i], shapes, src, ray, near, ignore),
                  shapes, src, ray, near, ignore)

intersect_primitives(primitives, shapes, src, ray, near, ignore) ==
    ScanLoop(primitives, 1, None, shapes, src, ray, near, ignore)

\* Whether InteriorNode::intersect queries the second child after the first
\* returned first_result (space_partition.rs 313-319 and 331-337).
CheckOther(first_result, started_under, axis, plane, src, ray) ==
    IF ~first_result.some THEN TRUE
    ELSE LET endpoint == PointAdd(src, VectorMul(ray, first_result.val.dist))
         IN  IF started_under
             THEN Point_component(endpoint, axis) > plane
             ELSE Point_component(endpoint, axis) < plane

\* What InteriorNode::intersect returns once both children were queried
\* (space_partition.rs 322 and 340): the second child's result.
Combine(first_result, second_result) == second_result

RECURSIVE SpacePartition_intersect(_, _, _, _, _, _)

\* InteriorNode::intersect after the first child returned first_result.
AfterFirst(node, started_under, first_result, shapes, src, ray, near, ignore) ==
    IF CheckOther(first_result, started_under, node.axis, node.plane, src, ray)
    THEN Combine(first_result,
                 SpacePartition_intersect(
                     IF started_under THEN node.over ELSE node.under,
                     shapes, src, ray, near, ignore))
    ELSE first_result

InteriorNode_intersect(node, shapes, src, ray, near, ignore) ==
    IF Point_component(src, node.axis) < node.plane
    THEN AfterFirst(node, TRUE,
                    SpacePartition_intersect(node.under, shapes, src, ray, near, ignore),
                    shapes, src, ray, near, ignore)
    ELSE AfterFirst(node, FALSE,
                    SpacePartition_intersect(node.over, shapes, src, ray, near, ignore),
                    shapes, src, ray, near, ignore)

SpacePartition_intersect(self, shapes, src, ray, near, ignore) ==
    IF ~BoundingBox_intersect(self.bounding_box, src, ray, near) THEN None
    ELSE IF self.kind = "Leaf"
    THEN intersect_primitives(self.primitives, shapes, src, ray, near, ignore)
    ELSE IF self.kind = "Interior"
    THEN InteriorNode_intersect(self, shapes, src, ray, near, ignore)
    ELSE None

----------------------------------------------------------------------------
(* BoundingBox::intersect as an operation: one call on drawn inputs.       *)

BoxCoords == (0 - 1) .. (MaxExtent + 1)
BoxInputs == {BoundingBox(Point_origin, Vector(a, b, c)) :
                 a \in {0, MaxExtent}, b \in {0, MaxExtent}, c \in {0, MaxExtent}}
BoxSources == {Point(a, b, c) : a \in BoxCoords, b \in BoxCoords, c \in BoxCoords}
BoxNears == {0 - 1, 0, 1}

BoxIdle == [done |-> FALSE, box |-> BoundingBox_zero, src |-> Point_origin,
            ray |-> ZeroVector, near |-> 0, result |-> FALSE]

BoxInit == bq = BoxIdle

BoxCall ==
    /\ ~bq.done
    /\ \E b \in BoxInputs, s \in BoxSources, r \in Directions, n \in BoxNears :
         bq' = [done |-> TRUE, box |-> b, src |-> s, ray |-> r, near |-> n,
                result |-> BoundingBox_intersect(b, s, r, n)]

\* src lies in the closed box.
InsideBox(b, s) ==
    /\ b.corner.x <= s.x /\ s.x <= b.corner.x + b.extent.dx
    /\ b.corner.y <= s.y /\ s.y <= b.corner.y + b.extent.dy
    /\ b.corner.z <= s.z /\ s.z <= b.corner.z + b.extent.dz

\* C3: BoundingBox::intersect with near <= 0 returns true for every src
\* inside the box and every non-zero ray, negative components included.
C3_InsideHits ==
    (bq.done /\ bq.near <= 0 /\ InsideBox(bq.box, bq.src) /\ bq.ray # ZeroVector)
        => bq.result

\* largest_near and smallest_far after the three slabs of
\* BoundingBox::intersect (shape.rs 99-163).
Slabs(self, src, ray) ==
    SlabYZ(SlabYZ(SlabX(self, src, ray),
                  self.corner.y, self.corner.y + self.extent.dy, src.y, ray.dy),
           self.corner.z, self.corner.z + self.extent.dz, src.z, ray.dz)

\* The verdict with both comparisons inclusive.
VerdictInclusive(acc, near_cull) ==
    acc.smallest_far >= acc.largest_near /\ acc.smallest_far >= near_cull

\* The box has no extent on one axis, and the ray runs along that axis
\* through the box from outside it.
CrossesFlatBox(b, s, r) ==
    \/ /\ b.extent.dz = 0 /\ r = Vector(0, 0, 1) /\ s.z < b.corner.z
       /\ b.corner.x <= s.x /\ s.x <= b.corner.x + b.extent.dx
       /\ b.corner.y <= s.y /\ s.y <= b.corner.y + b.extent.dy
    \/ /\ b.extent.dy = 0 /\ r = Vector(0, 1, 0) /\ s.y < b.corner.y
       /\ b.corner.x <= s.x /\ s.x <= b.corner.x + b.extent.dx
       /\ b.corner.z <= s.z /\ s.z <= b.corner.z + b.extent.dz

\* C14: when no slab rejects the ray, BoundingBox::intersect returns true
\* exactly when smallest_far >= largest_near and smallest_far >= near; and a
\* box with no extent on an axis is hit by a ray that crosses it along
\* that axis.
C14_InclusiveVerdict ==
    bq.done =>
        /\ ~Slabs(bq.box, bq.src, bq.ray).miss =>
              (bq.result <=> VerdictInclusive(Slabs(bq.box, bq.src, bq.ray), bq.near))
        /\ (CrossesFlatBox(bq.box, bq.src, bq.ray) /\ bq.near <= 0) => bq.result

----------------------------------------------------------------------------
(* Scene and SpacePartition as operations: the scene is filled by          *)
(* add_primitive, build_space_partition builds the tree once, and one      *)
(* intersect call queries it.                                              *)

\* The spheres a scene is made of: unit spheres along the x axis, one off
\* it on each other axis, and a larger one that straddles its neighbours.
SphereChoices ==
    {Sphere(Point(0, 0, 0), 1), Sphere(Point(3, 0, 0), 1), Sphere(Point(6, 0, 0), 1),
     Sphere(Point(0, 3, 0), 1), Sphere(Point(0, 0, 3), 1), Sphere(Point(3, 0, 0), 2)}

KdCoords == {0 - 3, 0, 1, 3, 6, 9}
KdSources == {Point(a, b, c) : a \in KdCoords, b \in {0 - 3, 0, 3}, c \in {0 - 3, 0}}
KdRays == {r \in Directions : Abs(r.dx) + Abs(r.dy) + Abs(r.dz) = 1}
KdNears == {0, 1}

KdIdle == [src |-> Point_origin, ray |-> ZeroVector, near |-> 0, ignore |-> 0,
           result |-> None]

KdInit ==
    /\ scene_primitives = <<>>
    /\ partition = Leaf(BoundingBox_zero, <<>>)
    /\ kd_pc = "scene"
    /\ kq = KdIdle

InSeq(e, q) == \E i \in 1 .. Len(q) : q[i] = e

\* Scene::add_primitive (scene.rs 32-40).
add_primitive(shape) ==
    /\ kd_pc = "scene"
    /\ Len(scene_primitives) < MaxPrims
    /\ ~InSeq(shape, scene_primitives)
    /\ scene_primitives' = Append(scene_primitives, shape)
    /\ UNCHANGED <<partition, kd_pc, kq>>

AddPrimitive == \E shape \in SphereChoices : add_primitive(shape)

RECURSIVE Overflowed(_)
Overflowed(t) ==
    CASE t.kind = "Leaf" -> FALSE
      [] t.kind = "StackOverflow" -> TRUE
      [] t.kind = "Interior" -> Overflowed(t.over) \/ Overflowed(t.under)

\* Scene::build_space_partition (scene.rs 46-48).
build_space_partition ==
    /\ kd_pc = "scene"
    /\ LET built == from_primitives(scene_primitives)
       IN  /\ partition' = built
           /\ kd_pc' = IF Overflowed(built) THEN "overflow" ELSE "built"
    /\ UNCHANGED <<scene_primitives, kq>>

\* Every call of Sphere::intersect the query makes is computed exactly.
QueryExact(src, ray) ==
    \A i \in 1 .. Len(scene_primitives) : SphereExact(scene_primitives[i], src, ray)

\* SpacePartition::intersect (space_partition.rs 268-289).
KdIntersect ==
    /\ kd_pc = "built"
    /\ \E src \in KdSources, ray \in KdRays, near \in KdNears,
          ignore \in 0 .. Len(scene_primitives) :
         /\ QueryExact(src, ray)
         /\ kq' = [src |-> src, ray |-> ray, near |-> near, ignore |-> ignore,
                   result |-> SpacePartition_intersect(partition, scene_primitives,
                                                       src, ray, near, ignore)]
    /\ kd_pc' = "queried"
    /\ UNCHANGED <<scene_primitives, partition>>

\* The nearest intersection by a linear scan over all the scene_primitives,
\* keeping the smallest distance >= near: the reference of the spec's
\* kd-tree equivalence.
LinearHits(src, ray, near) ==
    {i \in 1 .. Len(scene_primitives) : Sphere_intersect(scene_primitives[i], src, ray, near).some}
LinearDist(i, src, ray, near) == Sphere_intersect(scene_primitives[i], src, ray, near).val.dist
LinearNearest(src, ray, near) ==
    {i \in LinearHits(src, ray, near) :
        \A j \in LinearHits(src, ray, near) :
            LinearDist(i, src, ray, near) <= LinearDist(j, src, ray, near)}

\* C1: intersect(src, ray, near, None) on the built tree returns the nearest
\* intersection of a linear scan over all scene_primitives: none when the scan
\* finds none, else a primitive at the scan's smallest distance >= near.
C1_KdEqualsLinear ==
    (kd_pc = "queried" /\ kq.ignore = 0) =>
        IF LinearHits(kq.src, kq.ray, kq.near) = {}
        THEN ~kq.result.some
        ELSE /\ kq.result.some
             /\ kq.result.val.primitive \in LinearNearest(kq.src, kq.ray, kq.near)
             /\ kq.result.val.dist =
                  LinearDist(kq.result.val.primitive, kq.src, kq.ray, kq.near)

\* The leaves of a tree.
RECURSIVE Leaves(_)
Leaves(t) ==
    CASE t.kind = "Leaf" -> {t}
      [] t.kind = "StackOverflow" -> {}
      [] t.kind = "Interior" -> Leaves(t.over) \cup Leaves(t.under)

\* Two boxes overlap or touch.
Overlaps(a, b) ==
    /\ a.corner.x <= b.corner.x + b.extent.dx /\ b.corner.x <= a.corner.x + a.extent.dx
    /\ a.corner.y <= b.corner.y + b.extent.dy /\ b.corner.y <= a.corner.y + a.extent.dy
    /\ a.corner.z <= b.corner.z + b.extent.dz /\ b.corner.z <= a.corner.z + a.extent.dz

\* C2: in the built tree, every primitive whose bounding box overlaps a
\* leaf's bounding box is referenced by that leaf.
C2_LeafComplete ==
    kd_pc = "built" =>
        \A leaf \in Leaves(partition) : \A i \in 1 .. Len(scene_primitives) :
            Overlaps(Shape_bounding_box(scene_primitives[i]), leaf.bounding_box)
                => InSeq(i, leaf.primitives)

----------------------------------------------------------------------------
(* The calls of from_boxed_primitives a build makes, each with what was    *)
(* handed to it and what find_splitting_plane decided for it.              *)

BuildCall(boxed_primitives, axis, bounding_box, decision) ==
    [primitives |-> boxed_primitives, axis |-> axis, bounding_box |-> bounding_box,
     decision |-> decision]

RECURSIVE BuildCalls(_, _, _, _)

\* The two recursive calls (space_partition.rs 243-246).
ChildCalls(halves, axis, decision, depth) ==
    BuildCalls(halves.over, advance(axis), decision.over_box, depth + 1)
        \cup BuildCalls(halves.under, advance(axis), decision.under_box, depth + 1)

CallsFrom(boxed_primitives, axis, bounding_box, decision, depth) ==
    {BuildCall(boxed_primitives, axis, bounding_box, decision)}
        \cup (IF decision.some /\ depth < MaxBuildDepth
              THEN ChildCalls(split(boxed_primitives, axis, decision.val.plane),
                              axis, decision.val, depth)
              ELSE {})

BuildCalls(boxed_primitives, axis, bounding_box, depth) ==
    CallsFrom(boxed_primitives, axis, bounding_box,
              find_splitting_plane(boxed_primitives, axis,
                                   appraise(Len(boxed_primitives), bounding_box)),
              depth)

\* The calls of the build of the scene (space_partition.rs 206-219).
SceneCalls ==
    IF Len(scene_primitives) = 0 THEN {}
    ELSE BuildCalls([i \in 1 .. Len(scene_primitives) |->
                        BoxedPrimitive(i, Shape_bounding_box(scene_primitives[i]))],
                    "X",
                    TotalBox(scene_primitives, 2,
                             Shape_bounding_box(scene_primitives[1])),
                    0)

SplitCalls == {c \in SceneCalls : c.decision.some}

\* Box a encloses box b.
Encloses(a, b) ==
    /\ a.corner.x <= b.corner.x /\ b.corner.x + b.extent.dx <= a.corner.x + a.extent.dx
    /\ a.corner.y <= b.corner.y /\ b.corner.y + b.extent.dy <= a.corner.y + a.extent.dy
    /\ a.corner.z <= b.corner.z /\ b.corner.z + b.extent.dz <= a.corner.z + a.extent.dz

\* C13: in a built tree the bounding box of every node encloses the
\* bounding box of every primitive handed to the node.
C13_NodeBoxEncloses ==
    kd_pc = "built" =>
        \A c \in SceneCalls : \A i \in 1 .. Len(c.primitives) :
            Encloses(c.bounding_box, c.primitives[i].bbox)

\* The groups of the spec's build: min < plane goes under, max >= plane
\* goes over.
UnderGroup(primitives, axis, plane) ==
    LET Under(bp) == Point_component(min_corner(bp.bbox), axis) < plane
    IN  SelectSeq(primitives, Under)
OverGroup(primitives, axis, plane) ==
    LET Over(bp) == Point_component(max_corner(bp.bbox), axis) >= plane
    IN  SelectSeq(primitives, Over)

\* The union box of a non-empty group.
RECURSIVE UnionBox(_, _, _)
UnionBox(group, i, box) ==
    IF i > Len(group) THEN box
    ELSE UnionBox(group, i + 1, expand_to_fit(box, group[i].bbox))
GroupBox(group) == UnionBox(group, 2, group[1].bbox)

\* What the children of a split call were handed agrees with the groups.
ChildrenAreGroups(primitives, axis, decision, halves) ==
    /\ halves.under = UnderGroup(primitives, axis, decision.plane)
    /\ halves.over = OverGroup(primitives, axis, decision.plane)
    /\ halves.under # <<>> /\ halves.over # <<>>
    /\ decision.under_box = GroupBox(halves.under)
    /\ decision.over_box = GroupBox(halves.over)

\* C15: at every interior node, the under child is handed exactly the
\* primitives whose min on the axis is < plane and the over child exactly those
\* whose max is >= plane, and the children's bounding boxes are the union
\* boxes of these same two groups.
C15_ChildrenAreCostedGroups ==
    kd_pc = "built" =>
        \A c \in SplitCalls :
            ChildrenAreGroups(c.primitives, c.axis, c.decision.val,
                              split(c.primitives, c.axis, c.decision.val.plane))

\* The candidate planes of find_splitting_plane (space_partition.rs 56, 66).
CandidatePlanes(primitives, axis) ==
    {Point_component(min_corner(primitives[i].bbox), axis) : i \in 1 .. Len(primitives)}
        \cup {Point_component(max_corner(primitives[i].bbox), axis) :
                 i \in 1 .. Len(primitives)}

\* The appraisal has a box on both sides.
TwoSided(appraisal) == appraisal.under_box.some /\ appraisal.over_box.some

\* The cost with the shared face taken off, for count primitives.
DiscountedCost(count, under_box, over_box, axis) ==
    count * (surface_area(under_box) + surface_area(over_box)
                - face_area(under_box, axis) - face_area(over_box, axis))

CostIsDiscounted(count, appraisal, axis) ==
    TwoSided(appraisal) =>
        appraisal.cost =
            DiscountedCost(count, appraisal.under_box.val, appraisal.over_box.val, axis)

\* The calls that reach the loop over the candidate planes.
AppraisingCalls == {c \in SceneCalls : Len(c.primitives) >= MinSplitCount}

\* C18: the cost of a candidate plane on axis A over N primitives is
\* N * (SA(under) + SA(over) - face_area(under, A) - face_area(over, A)).
C18_CostDiscountsSharedFace ==
    kd_pc = "built" =>
        \A c \in AppraisingCalls : \A plane \in CandidatePlanes(c.primitives, c.axis) :
            CostIsDiscounted(Len(c.primitives),
                             appraise_split(c.primitives, c.axis, plane), c.axis)

\* The candidate planes of a call that leave both sides non-empty and cost
\* strictly less than not splitting.
Improving(primitives, axis, no_split_cost) ==
    {plane \in CandidatePlanes(primitives, axis) :
        /\ TwoSided(appraise_split(primitives, axis, plane))
        /\ appraise_split(primitives, axis, plane).cost < no_split_cost}

\* The decision is a split at a cheapest plane of the set.
SplitsAtCheapest(primitives, axis, decision, planes) ==
    /\ decision.some
    /\ decision.val.plane \in planes
    /\ \A plane \in planes :
          appraise_split(primitives, axis, decision.val.plane).cost
              <= appraise_split(primitives, axis, plane).cost

DecisionIsBest(primitives, axis, decision, planes) ==
    IF planes = {} THEN ~decision.some
    ELSE SplitsAtCheapest(primitives, axis, decision, planes)

\* C19: a node of 4 or more primitives becomes a leaf only if no
\* candidate plane with both sides non-empty costs strictly less than
\* N * surface_area(bbox); when there is one, the node is split at one of
\* least cost.
C19_SplitsWhenImproving ==
    kd_pc = "built" =>
        \A c \in AppraisingCalls :
            DecisionIsBest(c.primitives, c.axis, c.decision,
                           Improving(c.primitives, c.axis,
                                     appraise(Len(c.primitives), c.bounding_box)))

\* The primitives referenced by the leaves of a tree.
RECURSIVE Listed(_)
Listed(t) ==
    CASE t.kind = "Leaf" -> {t.primitives[i] : i \in 1 .. Len(t.primitives)}
      [] t.kind = "StackOverflow" -> {}
      [] t.kind = "Interior" -> Listed(t.over) \cup Listed(t.under)

\* The interior nodes of a tree.
RECURSIVE InteriorNodes(_)
InteriorNodes(t) ==
    IF t.kind = "Interior"
    THEN {t} \cup InteriorNodes(t.over) \cup InteriorNodes(t.under)
    ELSE {}

\* C20: in a built tree both children of every interior node hold at
\* least one primitive.
C20_NoEmptyChild ==
    kd_pc = "built" =>
        \A n \in InteriorNodes(partition) :
            Listed(n.over) # {} /\ Listed(n.under) # {}

\* The boxes of both children of an interior node lie in the node's box.
ChildrenInside(node) ==
    /\ Encloses(node.bounding_box, node.over.bounding_box)
    /\ Encloses(node.bounding_box, node.under.bounding_box)

\* C21: in a built tree the bounding box of each child of an interior
\* node is contained in the bounding box of its parent, at every depth.
C21_ChildBoxInParent ==
    kd_pc = "built" => \A n \in InteriorNodes(partition) : ChildrenInside(n)

\* C28: every primitive passed to from_primitives is referenced by at
\* least one leaf of the built tree: no split drops a primitive from both
\* children.
C28_EveryPrimitiveListed ==
    kd_pc = "built" =>
        \A i \in 1 .. Len(scene_primitives) : i \in Listed(partition)

\* A built tree with an interior node one of whose primitives ends on the
\* plane of the split.
C28_Witness ==
    /\ kd_pc = "built"
    /\ \E c \in SplitCalls : \E i \in 1 .. Len(c.primitives) :
         Point_component(max_corner(c.primitives[i].bbox), c.axis) = c.decision.val.plane

\* Axis number n of the cycle X -> Y -> Z -> X.
AxisNumber(n) ==
    CASE n = 0 -> "X"
      [] n = 1 -> "Y"
      [] n = 2 -> "Z"

\* Every interior node of t, t being at depth d, splits on the axis of its
\* depth.
RECURSIVE AxesCycle(_, _)
AxesCycle(t, d) ==
    t.kind = "Interior" =>
        /\ t.axis = AxisNumber(d % 3)
        /\ AxesCycle(t.over, d + 1)
        /\ AxesCycle(t.under, d + 1)

\* C30: the root is split on X and the children of every interior node on
\* the next axis of the cycle X -> Y -> Z -> X, so that an interior node at
\* depth d splits on axis number d mod 3.
C30_AxisCycles ==
    kd_pc \in {"built", "overflow"} => AxesCycle(partition, 0)

\* The interior nodes of t that lie d levels below it.
RECURSIVE InteriorAt(_, _)
InteriorAt(t, d) ==
    IF t.kind # "Interior" THEN {}
    ELSE IF d = 0 THEN {t}
    ELSE InteriorAt(t.over, d - 1) \cup InteriorAt(t.under, d - 1)

\* A built tree with an interior node at depth 3, where the cycle is back
\* at X.
C30_Witness ==
    /\ kd_pc = "built"
    /\ InteriorAt(partition, 3) # {}

\* The arguments of a call of from_boxed_primitives.
CallArgs(boxed_primitives, axis, bounding_box) == <<boxed_primitives, axis, bounding_box>>

\* Some call made under this one, or this one, has the arguments of a call
\* that encloses it: from_boxed_primitives computes its calls from its
\* arguments alone, so the recursion then never ends.
RECURSIVE Recurs(_, _, _, _, _)

RecursBelow(halves, axis, decision, enclosing, depth) ==
    \/ Recurs(halves.over, advance(axis), decision.over_box, enclosing, depth + 1)
    \/ Recurs(halves.under, advance(axis), decision.under_box, enclosing, depth + 1)

RecursFrom(boxed_primitives, axis, bounding_box, decision, enclosing, depth) ==
    \/ CallArgs(boxed_primitives, axis, bounding_box) \in enclosing
    \/ /\ decision.some
       /\ depth < MaxBuildDepth
       /\ RecursBelow(split(boxed_primitives, axis, decision.val.plane), axis,
                      decision.val,
                      enclosing \cup {CallArgs(boxed_primitives, axis, bounding_box)},
                      depth)

Recurs(boxed_primitives, axis, bounding_box, enclosing, depth) ==
    RecursFrom(boxed_primitives, axis, bounding_box,
               find_splitting_plane(boxed_primitives, axis,
                                    appraise(Len(boxed_primitives), bounding_box)),
               enclosing, depth)

\* The build of the scene recurs (space_partition.rs 206-219, 243-246).
SceneRecurs ==
    /\ Len(scene_primitives) > 0
    /\ Recurs([i \in 1 .. Len(scene_primitives) |->
                  BoxedPrimitive(i, Shape_bounding_box(scene_primitives[i]))],
              "X",
              TotalBox(scene_primitives, 2, Shape_bounding_box(scene_primitives[1])),
              {}, 0)

\* C29: from_primitives terminates on every list of primitives: the
\* recursion of from_boxed_primitives never reaches, from within a call, a
\* call of the same primitives, axis and bounding box, and it ends before
\* the stack does.
C29_BuildTerminates ==
    /\ kd_pc # "overflow"
    /\ kd_pc = "built" => ~SceneRecurs

----------------------------------------------------------------------------
(* The build alone, on scenes of spheres and of polygons that lie in a     *)
(* plane of constant x: add_primitive fills the scene and                  *)
(* build_space_partition builds the tree once.                             *)

\* The square of side 2 in the plane x = c.
Square(c) == Polygon(<< <<c, 0 - 1, 0 - 1>>, <<c, 1, 0 - 1>>, <<c, 1, 1>>, <<c, 0 - 1, 1>> >>)

\* Spheres on the left and on the right of the scene, a larger one between
\* them that touches both sides, and two squares on the right.
BuildShapes ==
    {Sphere(Point(0, 0, 0), 1), Sphere(Point(0, 3, 0), 1), Sphere(Point(3, 0, 0), 2),
     Sphere(Point(6, 0, 0), 1), Sphere(Point(6, 0, 3), 1), Square(6), Square(7)}

\* Scene::add_primitive (scene.rs 32-40) with a shape of either kind.
AddShape ==
    /\ kd_pc = "scene"
    /\ Len(scene_primitives) < MaxBuildPrims
    /\ \E shape \in BuildShapes :
         /\ ~InSeq(shape, scene_primitives)
         /\ scene_primitives' = Append(scene_primitives, shape)
    /\ UNCHANGED <<partition, kd_pc, kq>>

----------------------------------------------------------------------------
(* The calls of InteriorNode::intersect a query makes.                     *)

\* src is on the under side of the node's plane (space_partition.rs 303).
StartsUnder(node, src) == Point_component(src, node.axis) < node.plane
FirstChild(node, src) == IF StartsUnder(node, src) THEN node.under ELSE node.over
OtherChild(node, src) == IF StartsUnder(node, src) THEN node.over ELSE node.under

\* The result of the child on src's side, and of the other child.
FirstResult(node, shapes, src, ray, near, ignore) ==
    SpacePartition_intersect(FirstChild(node, src), shapes, src, ray, near, ignore)
OtherResult(node, shapes, src, ray, near, ignore) ==
    SpacePartition_intersect(OtherChild(node, src), shapes, src, ray, near, ignore)

\* The other child is queried as well.
QueriesBoth(node, first_result, src, ray) ==
    CheckOther(first_result, StartsUnder(node, src), node.axis, node.plane, src, ray)

RECURSIVE VisitedInterior(_, _, _, _, _, _)

VisitedBelow(node, first_result, shapes, src, ray, near, ignore) ==
    VisitedInterior(FirstChild(node, src), shapes, src, ray, near, ignore)
        \cup (IF QueriesBoth(node, first_result, src, ray)
              THEN VisitedInterior(OtherChild(node, src), shapes, src, ray, near, ignore)
              ELSE {})

\* The interior nodes the traversal of t reaches (space_partition.rs
\* 275-287, 303-344).
VisitedInterior(t, shapes, src, ray, near, ignore) ==
    IF t.kind = "Interior" /\ BoundingBox_intersect(t.bounding_box, src, ray, near)
    THEN {t} \cup VisitedBelow(t, FirstResult(t, shapes, src, ray, near, ignore),
                               shapes, src, ray, near, ignore)
    ELSE {}

\* The interior nodes the last query reached.
QueryVisited ==
    VisitedInterior(partition, scene_primitives, kq.src, kq.ray, kq.near, kq.ignore)

\* result is the nearer of two child results, the first of which is a hit.
IsNearer(result, first_result, second_result) ==
    /\ result.some
    /\ result.val.dist <= first_result.val.dist
    /\ second_result.some => result.val.dist <= second_result.val.dist
    /\ result = first_result \/ result = second_result

ReturnsNearer(node, first_result, shapes, src, ray, near, ignore) ==
    (first_result.some /\ QueriesBoth(node, first_result, src, ray)) =>
        IsNearer(InteriorNode_intersect(node, shapes, src, ray, near, ignore),
                 first_result,
                 OtherResult(node, shapes, src, ray, near, ignore))

\* C16: when InteriorNode::intersect queries both children after a hit in
\* the first, it returns the result of smaller distance: the first child's
\* hit is not dropped when the other child returns none or a farther hit.
C16_ReturnsNearer ==
    kd_pc = "queried" =>
        \A n \in QueryVisited :
            ReturnsNearer(n, FirstResult(n, scene_primitives, kq.src, kq.ray,
                                         kq.near, kq.ignore),
                          scene_primitives, kq.src, kq.ray, kq.near, kq.ignore)

\* No primitive listed under the node, the ignored one apart, is hit nearer
\* than dist.
NoneNearer(node, dist, shapes, src, ray, near, ignore) ==
    \A i \in Listed(node) \ {ignore} :
        Sphere_intersect(shapes[i], src, ray, near).some
            => Sphere_intersect(shapes[i], src, ray, near).val.dist >= dist

FirstIsNearest(node, first_result, shapes, src, ray, near, ignore) ==
    (first_result.some /\ ~QueriesBoth(node, first_result, src, ray)) =>
        /\ InteriorNode_intersect(node, shapes, src, ray, near, ignore) = first_result
        /\ NoneNearer(node, first_result.val.dist, shapes, src, ray, near, ignore)

\* C17: when the child on src's side returns a hit whose endpoint is on
\* that side, InteriorNode::intersect returns it without querying the other
\* child, and no primitive under the node is hit at a smaller distance >= near.
C17_FirstHitIsNearest ==
    kd_pc = "queried" =>
        \A n \in QueryVisited :
            FirstIsNearest(n, FirstResult(n, scene_primitives, kq.src, kq.ray,
                                          kq.near, kq.ignore),
                           scene_primitives, kq.src, kq.ray, kq.near, kq.ignore)

----------------------------------------------------------------------------
(* Queries of a tree deep enough for the traversal to return from a        *)
(* nested interior node: the scene is a selection, in order, of five       *)
(* spheres.                                                                *)

TraverseShapes ==
    <<Sphere(Point(6, 1, 1), 1), Sphere(Point(7, 3, 1), 1), Sphere(Point(5, 0, 0), 1),
      Sphere(Point(0, 3, 0), 1), Sphere(Point(4, 1, 1), 1)>>

\* The place of a shape in TraverseShapes, 0 for a scene without shapes.
LastPlace ==
    IF scene_primitives = <<>> THEN 0
    ELSE CHOOSE k \in 1 .. Len(TraverseShapes) :
             TraverseShapes[k] = scene_primitives[Len(scene_primitives)]

\* Scene::add_primitive (scene.rs 32-40) with a later shape of the list.
AddTraversed ==
    /\ kd_pc = "scene"
    /\ \E k \in (LastPlace + 1) .. Len(TraverseShapes) :
         scene_primitives' = Append(scene_primitives, TraverseShapes[k])
    /\ UNCHANGED <<partition, kd_pc, kq>>

TraverseSources ==
    {Point(a, b, c) : a \in {0 - 3, 2, 9}, b \in 0 .. 3, c \in {0, 1}}

\* SpacePartition::intersect (space_partition.rs 268-289).
TraverseIntersect ==
    /\ kd_pc = "built"
    /\ \E src \in TraverseSources, ray \in KdRays, near \in KdNears,
          ignore \in 0 .. Len(scene_primitives) :
         /\ QueryExact(src, ray)
         /\ kq' = [src |-> src, ray |-> ray, near |-> near, ignore |-> ignore,
                   result |-> SpacePartition_intersect(partition, scene_primitives,
                                                       src, ray, near, ignore)]
    /\ kd_pc' = "queried"
    /\ UNCHANGED <<scene_primitives, partition>>

\* The primitives of a leaf that the scan does not skip and the ray hits.
LeafHits(leaf, shapes, src, ray, near, ignore) ==
    {i \in Listed(leaf) \ {ignore} : Sphere_intersect(shapes[i], src, ray, near).some}

\* result is the nearest of the hits, none when there is no hit.
NearestOf(result, hits, shapes, src, ray, near) ==
    IF hits = {} THEN ~result.some
    ELSE /\ result.some
         /\ result.val.primitive \in hits
         /\ result.val.dist =
              Sphere_intersect(shapes[result.val.primitive], src, ray, near).val.dist
         /\ \A j \in hits :
              result.val.dist <= Sphere_intersect(shapes[j], src, ray, near).val.dist

LeafScanIsNearest(leaf, shapes, src, ray, near, ignore) ==
    NearestOf(intersect_primitives(leaf.primitives, shapes, src, ray, near, ignore),
              LeafHits(leaf, shapes, src, ray, near, ignore),
              shapes, src, ray, near)

\* C22: a hit returned by SpacePartition::intersect never names the
\* ignored primitive and has distance >= near, and in every leaf the scan
\* returns the hit of smallest distance among the leaf's primitives other
\* than the ignored one.
C22_IgnoreAndNear ==
    kd_pc = "queried" =>
        /\ kq.result.some =>
              /\ kq.result.val.primitive # kq.ignore
              /\ kq.result.val.dist >= kq.near
        /\ \A leaf \in Leaves(partition) :
              LeafScanIsNearest(leaf, scene_primitives, kq.src, kq.ray, kq.near,
                                kq.ignore)

\* A query returned a hit although the ignored primitive is hit nearer, at
\* a distance >= near.
C22_Witness ==
    /\ kd_pc = "queried"
    /\ kq.ignore # 0
    /\ kq.near > 0
    /\ kq.result.some
    /\ Sphere_intersect(scene_primitives[kq.ignore], kq.src, kq.ray, kq.near).some
    /\ Sphere_intersect(scene_primitives[kq.ignore], kq.src, kq.ray, kq.near).val.dist
          < kq.result.val.dist

----------------------------------------------------------------------------
(* The build of trees several interior nodes deep: the scene is a          *)
(* selection, in order, of seven spheres off the axes.                     *)

NestShapes ==
    <<Sphere(Point(6, 3, 3), 1), Sphere(Point(3, 0, 0), 1), Sphere(Point(3, 6, 3), 1),
      Sphere(Point(3, 3, 6), 2), Sphere(Point(0, 6, 3), 1), Sphere(Point(6, 0, 6), 1),
      Sphere(Point(3, 0, 6), 1)>>

\* The place in NestShapes of the last shape of the scene, 0 for a scene
\* without shapes.
LastNested ==
    IF scene_primitives = <<>> THEN 0
    ELSE CHOOSE k \in 1 .. Len(NestShapes) :
             NestShapes[k] = scene_primitives[Len(scene_primitives)]

\* Scene::add_primitive (scene.rs 32-40) with a later shape of the list.
AddNested ==
    /\ kd_pc = "scene"
    /\ \E k \in (LastNested + 1) .. Len(NestShapes) :
         scene_primitives' = Append(scene_primitives, NestShapes[k])
    /\ UNCHANGED <<partition, kd_pc, kq>>

----------------------------------------------------------------------------
(* render.rs: RenderTarget.  A color is a small integer here, 0 is the     *)
(* black the buffer is filled with.  A Vec index at or past the length     *)
(* panics.                                                                 *)

TargetColors == {1, 2}
Black == 0

\* RenderTarget::new
RenderTarget_new(width, height) ==
    [width |-> width, height |-> height,
     values |-> [i \in 1 .. width * height |-> Black]]

\* The index set and get compute.
ValueIndex(self, x, y) == y * self.height + x

InBuffer(self, index) == index < Len(self.values)

\* RenderTarget::set; the sequence is indexed from 1.
RenderTarget_set(self, x, y, color) ==
    [self EXCEPT !.values[ValueIndex(self, x, y) + 1] = color]

\* RenderTarget::get
RenderTarget_get(self, x, y) == self.values[ValueIndex(self, x, y) + 1]

Pixels(self) == (0 .. self.width - 1) \X (0 .. self.height - 1)

TargetIdle == [x |-> 0, y |-> 0, done |-> FALSE, value |-> Black]

TargetInit ==
    /\ target = RenderTarget_new(0, 0)
    /\ target_pc = "none"
    /\ last_set = <<>>
    /\ sets = 0
    /\ tg = TargetIdle

TargetNew ==
    /\ target_pc = "none"
    /\ \E width \in 1 .. MaxSide, height \in 1 .. MaxSide :
         /\ target' = RenderTarget_new(width, height)
         /\ last_set' = [p \in Pixels(target') |-> None]
    /\ target_pc' = "live"
    /\ UNCHANGED <<sets, tg>>

TargetSet ==
    /\ target_pc = "live"
    /\ ~tg.done
    /\ sets < MaxSets
    /\ \E p \in Pixels(target), color \in TargetColors :
         IF InBuffer(target, ValueIndex(target, p[1], p[2]))
         THEN /\ target' = RenderTarget_set(target, p[1], p[2], color)
              /\ last_set' = [last_set EXCEPT ![p] = Some(color)]
              /\ sets' = sets + 1
              /\ UNCHANGED <<target_pc, tg>>
         ELSE /\ target_pc' = "panic"
              /\ UNCHANGED <<target, last_set, sets, tg>>

TargetGet ==
    /\ target_pc = "live"
    /\ ~tg.done
    /\ \E p \in Pixels(target) :
         IF InBuffer(target, ValueIndex(target, p[1], p[2]))
         THEN /\ tg' = [x |-> p[1], y |-> p[2], done |-> TRUE,
                        value |-> RenderTarget_get(target, p[1], p[2])]
              /\ UNCHANGED <<target, target_pc, last_set, sets>>
         ELSE /\ target_pc' = "panic"
              /\ UNCHANGED <<target, last_set, sets, tg>>

\* C4: no set or get with x < width and y < height indexes outside the
\* buffer, and get(x, y) returns the color of the last set(x, y, _).
C4_RowMajor ==
    /\ target_pc # "panic"
    /\ (tg.done /\ last_set[<<tg.x, tg.y>>].some)
           => tg.value = last_set[<<tg.x, tg.y>>].val

----------------------------------------------------------------------------
(* vector_math.rs: reflected and refracted on unit vectors.  A unit vector *)
(* is written in units of 1 / VecScale, a refraction index as p / q, and a *)
(* result as a numerator vector over a common denominator.  Only calls     *)
(* whose square root is rational are drawn.                                *)

Scale2 == VecScale * VecScale

UnitComponents == (0 - VecScale) .. VecScale
UnitVectors ==
    {w \in [dx : UnitComponents, dy : UnitComponents, dz : UnitComponents] :
        dot(w, w) = Scale2}

\* Vector::reflected: self - 2 (self . normal) normal, over VecScale^3.
reflected(self, normal) ==
    [num |-> VectorSub(VectorMul(self, Scale2),
                       VectorMul(normal, 2 * dot(self, normal))),
     den |-> VecScale * Scale2]

\* a of refracted, times (Scale2 * p)^2:
\* 1 - (1 - dp * dp) / (refraction_index * refraction_index).
RefractA(dp, p, q) == Scale2 * Scale2 * p * p - (Scale2 * Scale2 - dp * dp) * q * q

\* A variant of b that subtracts dp / refraction_index.
RefractB_Minus(sqrt_a, dp, q) == sqrt_a - dp * q

\* b of refracted, times Scale2 * p: a.sqrt() + dp / refraction_index.
RefractB(sqrt_a, dp, q) == sqrt_a + dp * q

\* self / refraction_index - b * normal, over VecScale * Scale2 * p.
RefractResult(self, normal, b, p, q) ==
    [num |-> VectorSub(VectorMul(self, Scale2 * q), VectorMul(normal, b)),
     den |-> VecScale * Scale2 * p]

\* Vector::refracted with refraction_index = p / q; dp is self . normal
\* times Scale2.
RefractFrom(self, normal, dp, a, p, q) ==
    IF a >= 0
    THEN RefractResult(self, normal, RefractB(Sqrt(a), dp, q), p, q)
    ELSE reflected(self, normal)

refracted(self, normal, p, q) ==
    RefractFrom(self, normal, dot(self, normal),
                RefractA(dot(self, normal), p, q), p, q)

RefractExact(self, normal, p, q) ==
    RefractA(dot(self, normal), p, q) >= 0
        => IsSquare(RefractA(dot(self, normal), p, q))

\* A result [num, den] is the unit vector w.
SameVector(result, w) == VectorMul(result.num, VecScale) = VectorMul(w, result.den)

VecIdle ==
    [self |-> ZeroVector, normal |-> ZeroVector, p |-> 1, q |-> 1,
     done |-> FALSE, result |-> [num |-> ZeroVector, den |-> 1]]

VecInit == vq = VecIdle

VecCall ==
    /\ ~vq.done
    /\ \E self \in UnitVectors, normal \in UnitVectors,
          p \in 1 .. MaxIndex, q \in 1 .. MaxIndex :
         /\ RefractExact(self, normal, p, q)
         /\ vq' = [self |-> self, normal |-> normal, p |-> p, q |-> q,
                   done |-> TRUE, result |-> refracted(self, normal, p, q)]

\* C7 as stated: refracted(N, 1) returns v for every unit v and unit N,
\* whatever the sign of v . N.
C7_AnySign ==
    (vq.done /\ vq.p = vq.q) => SameVector(vq.result, vq.self)

\* C7: refracted(N, 1) returns v for every unit v and unit N with
\* v . N <= 0, the normal facing the incoming vector.
C7_RefractIdentity ==
    (vq.done /\ vq.p = vq.q /\ dot(vq.self, vq.normal) <= 0)
        => SameVector(vq.result, vq.self)

C7_Witness ==
    /\ vq.done /\ vq.p = vq.q
    /\ dot(vq.self, vq.normal) < 0
    /\ dot(vq.self, vq.normal) > 0 - Scale2
    /\ SameVector(vq.result, vq.self)

----------------------------------------------------------------------------
(* color.rs, phong.rs.  A color channel and a surface coefficient are      *)
(* integers in units of 1 / Unit, Unit a power of two; the values drawn    *)
(* are dyadic, so the products below are exact.                            *)

Unit == 2 ^ 12

Color(r, g, b) == [r |-> r, g |-> g, b |-> b]

Color_black == Color(0, 0, 0)
Color_white == Color(Unit, Unit, Unit)

\* The upper bound of Color::clamp on one channel.
ClampChannel(c) == IF c > Unit THEN Unit ELSE c

\* Color::clamp
Color_clamp(self) ==
    Color(ClampChannel(self.r), ClampChannel(self.g), ClampChannel(self.b))

\* Add and AddAssign for Color.
Color_add(self, rhs) == Color(self.r + rhs.r, self.g + rhs.g, self.b + rhs.b)

\* The product of two numbers in units of 1 / Unit.
FMul(a, b) == IF a * b >= 0 THEN (a * b) \div Unit ELSE 0 - ((0 - a * b) \div Unit)

\* Mul<f32> for Color.
Color_mul(self, scale) ==
    Color(FMul(self.r, scale), FMul(self.g, scale), FMul(self.b, scale))

\* Each channel within [0, 1].
InUnitRange(self) ==
    /\ 0 <= self.r /\ self.r <= Unit
    /\ 0 <= self.g /\ self.g <= Unit
    /\ 0 <= self.b /\ self.b <= Unit

\* A Phong surface; the refraction index is index_p / index_q.
Phong(color, kd, ks, shine, transmittance, index_p, index_q) ==
    [color |-> color, diffuse_component |-> kd, specular_component |-> ks,
     shine |-> shine, reflectance |-> ks, transmittance |-> transmittance,
     index_p |-> index_p, index_q |-> index_q]

\* f32::powf on the bases the model meets: dot products of axis-parallel
\* unit vectors, of which only 1 is positive, and 1 to any power is 1.
Powf(base, shine) == base

\* The specular term of get_visible_color; ldr is a whole number.
SpecularContrib(self, ldr) ==
    IF ldr > 0 THEN self.specular_component * Powf(ldr, self.shine) ELSE 0

\* The diffuse term of get_visible_color; ndl is a whole number.
DiffuseContrib(self, ndl) ==
    IF ndl > 0 THEN self.diffuse_component * ndl ELSE 0

\* The color get_visible_color builds from the two terms.
LitColor(self, light_color, specular_contrib, diffuse_contrib) ==
    Color(FMul(light_color.r, specular_contrib + FMul(diffuse_contrib, self.color.r)),
          FMul(light_color.g, specular_contrib + FMul(diffuse_contrib, self.color.g)),
          FMul(light_color.b, specular_contrib + FMul(diffuse_contrib, self.color.b)))

\* Phong::get_visible_color
Phong_get_visible_color(self, normal, view, light_direction, light_color) ==
    IF dot(normal, view) > 0
    THEN Color_black
    ELSE LitColor(self, light_color,
             SpecularContrib(self,
                 dot(VectorSub(view, VectorMul(normal, 2 * dot(normal, view))),
                     light_direction)),
             DiffuseContrib(self, dot(normal, light_direction)))

----------------------------------------------------------------------------
(* scene.rs: Scene::trace and Scene::sub_trace.  A call of sub_trace is a  *)
(* frame of tstack; it advances from "enter" (the intersection and the     *)
(* lights) through "reflect" and "refract" (each may call sub_trace and    *)
(* then waits in "reflect_ret" or "refract_ret") to "clamp".               *)

MAX_DEPTH == 5

\* MIN_CONTRIBUTION is 0.003: this many thousandths.
MinContributionThousandths == 3

\* The near distance 0.0001 of a refracted ray: above 0 and below every
\* positive distance of the model, which are whole numbers.
RefractionNear == 1

\* A variant of the test that admits every contribution.
AboveMinimum_Any(contribution) == contribution >= 0

\* contribution > MIN_CONTRIBUTION
AboveMinimum(contribution) ==
    contribution * 1000 > MinContributionThousandths * Unit

\* A variant of the depth test that admits depth = MAX_DEPTH.
DepthAllows_Inclusive(depth) == depth <= MAX_DEPTH

\* depth < MAX_DEPTH
DepthAllows(depth) == depth < MAX_DEPTH

\* A whole unit vector in the units of reflected and refracted, and back.
ScaleUp(v) == VectorMul(v, VecScale)
FromResult(result) ==
    Vector(FDiv(result.num.dx, result.den), FDiv(result.num.dy, result.den),
           FDiv(result.num.dz, result.den))

Light(position, color) == [position |-> position, color |-> color]

Frame(src, ray, near, ignore, contribution, depth) ==
    [src |-> src, ray |-> ray, near |-> near, ignore |-> ignore,
     contribution |-> contribution, depth |-> depth,
     pc |-> "enter", hit |-> None, total_color |-> Color_black]

surface_position(frame) ==
    PointAdd(frame.src, VectorMul(frame.ray, frame.hit.val.dist))

back_face(frame) == dot(frame.hit.val.normal, frame.ray) > 0

\* The match on the shadow ray's intersection.
light_blocked(blocker, light_distance) ==
    IF blocker.some THEN blocker.val.dist <= light_distance ELSE FALSE

\* One round of the loop over the lights, the direction and distance of the
\* light computed.
LightFrom(total_color, scene, frame, light, light_direction, light_distance) ==
    IF light_blocked(SpacePartition_intersect(scene.partition, scene.shapes,
                         surface_position(frame), light_direction, 0,
                         frame.hit.val.primitive),
                     light_distance)
    THEN total_color
    ELSE Color_add(total_color,
             Phong_get_visible_color(scene.surfaces[frame.hit.val.primitive],
                 frame.hit.val.normal, frame.ray, light_direction, light.color))

RECURSIVE LightsLoop(_, _, _, _)
LightsLoop(total_color, scene, frame, i) ==
    IF i > Len(scene.lights) THEN total_color
    ELSE LightsLoop(
             LightFrom(total_color, scene, frame, scene.lights[i],
                 normalized(PointSub(scene.lights[i].position, surface_position(frame))),
                 magnitude(PointSub(scene.lights[i].position, surface_position(frame)))),
             scene, frame, i + 1)

reflection_contribution(frame, surface) ==
    FMul(frame.contribution, surface.reflectance)

reflected_ray(frame) ==
    FromResult(reflected(ScaleUp(frame.ray), ScaleUp(frame.hit.val.normal)))

\* The transmittance sub_trace uses for a front or a back face.
transmittance(frame, surface) ==
    IF back_face(frame)
    THEN IF AboveMinimum(surface.transmittance) THEN Unit ELSE 0
    ELSE surface.transmittance

refraction_contribution(frame, surface) ==
    FMul(frame.contribution, transmittance(frame, surface))

\* Leaving through a back face the normal is negated and the index inverted.
refracted_ray(frame, surface) ==
    IF back_face(frame)
    THEN FromResult(refracted(ScaleUp(frame.ray),
                              ScaleUp(VectorNeg(frame.hit.val.normal)),
                              surface.index_q, surface.index_p))
    ELSE FromResult(refracted(ScaleUp(frame.ray), ScaleUp(frame.hit.val.normal),
                              surface.index_p, surface.index_q))

\* The scenes traced: unit spheres in a row on the y axis, each with one of
\* four surfaces, a background, and no light or one light on the axis.
Matte == Phong(Color_white, Unit, 0, 1, 0, 1, 1)
Mirror == Phong(Color_white, 0, Unit, 1, 0, 1, 1)
Glass == Phong(Color_white, 0, 0, 1, Unit, 3, 2)
Tinted == Phong(Color(Unit, Unit \div 2, 0), Unit, Unit \div 2, 1, Unit \div 2, 1, 1)
TraceSurfaces == {Matte, Mirror, Glass, Tinted}

TraceShape(i) == Sphere(Point(0, 4 * (i - 1), 0), 1)

TraceBackgrounds ==
    {Color(Unit \div 4, Unit \div 2, 3 * (Unit \div 4)), Color(2 * Unit, 2 * Unit, 2 * Unit)}

TraceLights ==
    {<<>>,
     <<Light(Point(0, 2, 0), Color_white)>>,
     <<Light(Point(0, 2, 0), Color(0 - Unit, 0 - Unit, 0 - Unit))>>}

TraceSources == {Point(0, 0 - 3, 0), Point(0, 2, 0)}
TraceRays == {Vector(0, 1, 0), Vector(0, 0 - 1, 0), Vector(1, 0, 0)}

TraceInit ==
    /\ tscene = [background |-> Color_white, lights |-> <<>>, shapes |-> <<>>,
                 surfaces |-> <<>>, partition |-> from_primitives(<<>>)]
    /\ tstack = <<>>
    /\ returned = Color_black
    /\ trace_pc = "idle"
    /\ tsteps = 0

\* Scene::new, the add_primitive and add_light calls of a parse, and
\* build_space_partition.
TraceSetup ==
    /\ trace_pc = "idle"
    /\ \E n \in 0 .. MaxTracePrims :
       \E surfaces \in [1 .. n -> TraceSurfaces],
          background \in TraceBackgrounds, lights \in TraceLights :
         tscene' = [background |-> background, lights |-> lights,
                    shapes |-> [i \in 1 .. n |-> TraceShape(i)],
                    surfaces |-> surfaces,
                    partition |-> from_primitives([i \in 1 .. n |-> TraceShape(i)])]
    /\ trace_pc' = "ready"
    /\ UNCHANGED <<tstack, returned, tsteps>>

\* Scene::trace (scene.rs 57-63): the call of sub_trace.
Scene_trace ==
    /\ trace_pc = "ready"
    /\ \E src \in TraceSources, ray \in TraceRays :
         /\ \A i \in 1 .. Len(tscene.shapes) : SphereExact(tscene.shapes[i], src, ray)
         /\ tstack' = <<Frame(src, ray, 0, 0, Unit, 0)>>
    /\ trace_pc' = "tracing"
    /\ UNCHANGED <<tscene, returned, tsteps>>

Top == tstack[Len(tstack)]
SetTop(frame) == [tstack EXCEPT ![Len(tstack)] = frame]
TopSurface == tscene.surfaces[Top.hit.val.primitive]
Running(pc) ==
    /\ trace_pc = "tracing" /\ tsteps < MaxTraceSteps
    /\ Len(tstack) > 0 /\ Top.pc = pc

\* sub_trace returns color to its caller, or to trace.
ReturnColor(color) ==
    /\ tstack' = SubSeq(tstack, 1, Len(tstack) - 1)
    /\ returned' = color
    /\ trace_pc' = IF Len(tstack) = 1 THEN "done" ELSE "tracing"
    /\ UNCHANGED tscene

\* A variant that sums the lights and goes on to the reflection whatever
\* the face.
Lit_AnyFace(frame) ==
    [frame EXCEPT !.pc = "reflect",
                  !.total_color = LightsLoop(Color_black, tscene, frame, 1)]

\* The frame after a hit: the lights are summed on a front face.
Lit(frame) ==
    IF back_face(frame)
    THEN [frame EXCEPT !.pc = "refract"]
    ELSE [frame EXCEPT !.pc = "reflect",
                       !.total_color = LightsLoop(Color_black, tscene, frame, 1)]

\* sub_trace from its entry to the reflection (scene.rs 90-125, 199).
EnterWith(intersection) ==
    IF intersection.some
    THEN /\ tstack' = SetTop(Lit([Top EXCEPT !.hit = intersection]))
         /\ UNCHANGED <<tscene, returned, trace_pc>>
    ELSE ReturnColor(tscene.background)

SubTraceEnter ==
    /\ Running("enter")
    /\ tsteps' = tsteps + 1
    /\ EnterWith(SpacePartition_intersect(tscene.partition, tscene.shapes,
                     Top.src, Top.ray, Top.near, Top.ignore))

\* The reflection (scene.rs 127-144) up to its call of sub_trace.
SubTraceReflect ==
    /\ Running("reflect")
    /\ tsteps' = tsteps + 1
    /\ IF /\ DepthAllows(Top.depth)
          /\ AboveMinimum(reflection_contribution(Top, TopSurface))
       THEN tstack' = Append(SetTop([Top EXCEPT !.pc = "reflect_ret"]),
                          Frame(surface_position(Top), reflected_ray(Top), 0,
                                Top.hit.val.primitive,
                                reflection_contribution(Top, TopSurface),
                                Top.depth + 1))
       ELSE tstack' = SetTop([Top EXCEPT !.pc = "refract"])
    /\ UNCHANGED <<tscene, returned, trace_pc>>

\* The reflected color is added (scene.rs 141-142).
SubTraceReflected ==
    /\ Running("reflect_ret")
    /\ tsteps' = tsteps + 1
    /\ tstack' = SetTop([Top EXCEPT
           !.pc = "refract",
           !.total_color = Color_add(Top.total_color,
                               Color_mul(returned, TopSurface.reflectance))])
    /\ UNCHANGED <<tscene, returned, trace_pc>>

\* The refraction (scene.rs 147-190) up to its call of sub_trace.
SubTraceRefract ==
    /\ Running("refract")
    /\ tsteps' = tsteps + 1
    /\ IF /\ DepthAllows(Top.depth)
          /\ AboveMinimum(refraction_contribution(Top, TopSurface))
       THEN tstack' = Append(SetTop([Top EXCEPT !.pc = "refract_ret"]),
                          Frame(surface_position(Top), refracted_ray(Top, TopSurface),
                                RefractionNear, 0,
                                refraction_contribution(Top, TopSurface),
                                Top.depth + 1))
       ELSE tstack' = SetTop([Top EXCEPT !.pc = "clamp"])
    /\ UNCHANGED <<tscene, returned, trace_pc>>

\* The refracted color is added (scene.rs 192).
SubTraceRefracted ==
    /\ Running("refract_ret")
    /\ tsteps' = tsteps + 1
    /\ tstack' = SetTop([Top EXCEPT
           !.pc = "clamp",
           !.total_color = Color_add(Top.total_color,
                               Color_mul(returned, transmittance(Top, TopSurface)))])
    /\ UNCHANGED <<tscene, returned, trace_pc>>

\* The clamp and the return (scene.rs 195-196).
SubTraceClamp ==
    /\ Running("clamp")
    /\ tsteps' = tsteps + 1
    /\ ReturnColor(Color_clamp(Top.total_color))

\* C5: every color sub_trace returns, to trace or to a calling sub_trace,
\* has each of r, g, b within [0, 1].
C5_ColorsInRange ==
    trace_pc \in {"tracing", "done"} => InUnitRange(returned)

\* Every sub_trace in progress was entered with depth <= MAX_DEPTH, one
\* deeper than its caller, so at most MAX_DEPTH + 1 are nested.
DepthBounded ==
    /\ trace_pc = "tracing" => Len(tstack) > 0
    /\ Len(tstack) <= MAX_DEPTH + 1
    /\ \A i \in 1 .. Len(tstack) : tstack[i].depth = i - 1 /\ tstack[i].depth <= MAX_DEPTH

\* C6: sub_trace is never entered with depth greater than MAX_DEPTH, the
\* chain of nested calls is at most 6 long, and every trace terminates.
C6_DepthBounded ==
    /\ []DepthBounded
    /\ (trace_pc = "tracing") ~> (trace_pc = "done")

\* A sub_trace at depth MAX_DEPTH that hit a reflecting surface and makes no
\* further call.
C6_Witness ==
    /\ Running("reflect")
    /\ Len(tstack) = MAX_DEPTH + 1
    /\ Top.depth = MAX_DEPTH
    /\ AboveMinimum(reflection_contribution(Top, TopSurface))

\* The frame holds a hit on a back face.
BackFaced(frame) == frame.hit.some /\ back_face(frame)

\* A back-face frame is never at the reflection, and it holds black until
\* a refracted color is added.
BackFaceDark ==
    \A i \in 1 .. Len(tstack) :
        BackFaced(tstack[i]) =>
            /\ tstack[i].pc \in {"refract", "refract_ret", "clamp"}
            /\ tstack[i].pc \in {"refract", "refract_ret"}
                  => tstack[i].total_color = Color_black

\* The innermost frame comes to its clamp in this step.
ComesToClamp ==
    /\ Len(tstack) > 0
    /\ Len(tstack') = Len(tstack)
    /\ Top.pc # "clamp"
    /\ Top'.pc = "clamp"

\* It comes there from the refraction, front face or back, and a back face
\* brings black or the refracted color times its transmittance.
ClampAfterRefraction ==
    ComesToClamp =>
        /\ Top.pc \in {"refract", "refract_ret"}
        /\ (BackFaced(Top) /\ Top.pc = "refract") => Top'.total_color = Color_black
        /\ (BackFaced(Top) /\ Top.pc = "refract_ret") =>
              Top'.total_color = Color_mul(returned, transmittance(Top, TopSurface))

\* C24: on a back-face hit sub_trace adds no direct light and traces no
\* reflection: the color it clamps is the refracted contribution alone, or
\* black when no refracted ray is traced; the refraction step is taken for
\* front and back faces alike.
C24_BackFaceRefractsOnly ==
    /\ []BackFaceDark
    /\ [][ClampAfterRefraction]_vars

\* A back-face hit whose refracted ray brought back a color other than black.
C24_Witness ==
    /\ Len(tstack) > 0
    /\ BackFaced(Top)
    /\ Top.pc = "clamp"
    /\ Top.total_color # Color_black
    /\ Len(tscene.lights) > 0

\* The surface of the primitive a frame hit.
HitSurface(frame) == tscene.surfaces[frame.hit.val.primitive]

\* The contribution the call made by caller should carry: the caller's
\* times the reflectance at the reflection, times the transmittance of the
\* face at the refraction.
ScaledContribution(caller) ==
    IF caller.pc = "reflect_ret"
    THEN FMul(caller.contribution, HitSurface(caller).reflectance)
    ELSE FMul(caller.contribution,
              IF back_face(caller)
              THEN (IF HitSurface(caller).transmittance * 1000
                          > MinContributionThousandths * Unit
                    THEN Unit ELSE 0)
              ELSE HitSurface(caller).transmittance)

\* C25: every recursive sub_trace call carries a contribution strictly
\* greater than MIN_CONTRIBUTION, and it is exactly the caller's
\* contribution times the reflectance (reflected ray) or times the effective
\* transmittance (refracted ray).
C25_ContributionAboveMinimum ==
    \A i \in 2 .. Len(tstack) :
        /\ tstack[i].contribution * 1000 > MinContributionThousandths * Unit
        /\ tstack[i - 1].pc \in {"reflect_ret", "refract_ret"}
        /\ tstack[i].contribution = ScaledContribution(tstack[i - 1])

\* A reflected ray in progress that carries half of its caller's
\* contribution.
C25_Witness ==
    /\ Len(tstack) >= 2
    /\ tstack[1].pc = "reflect_ret"
    /\ tstack[2].contribution * 2 = tstack[1].contribution

\* The direction and the distance of a light from the hit point of a frame
\* (scene.rs 104-106).
light_direction(frame, light) ==
    normalized(PointSub(light.position, surface_position(frame)))
light_distance(frame, light) ==
    magnitude(PointSub(light.position, surface_position(frame)))

\* The primitives other than the hit one that the shadow ray of a light
\* meets at a distance >= 0 and <= the distance of the light.
Blockers(scene, frame, light) ==
    {i \in 1 .. Len(scene.shapes) :
        /\ i # frame.hit.val.primitive
        /\ Sphere_intersect(scene.shapes[i], surface_position(frame),
                            light_direction(frame, light), 0).some
        /\ Sphere_intersect(scene.shapes[i], surface_position(frame),
                            light_direction(frame, light), 0).val.dist
              <= light_distance(frame, light)}

\* The shaded color of a light that nothing blocks, black for a blocked one.
DirectColor(scene, frame, light) ==
    IF Blockers(scene, frame, light) = {}
    THEN Phong_get_visible_color(scene.surfaces[frame.hit.val.primitive],
             frame.hit.val.normal, frame.ray, light_direction(frame, light),
             light.color)
    ELSE Color_black

RECURSIVE DirectSum(_, _, _)
DirectSum(scene, frame, i) ==
    IF i > Len(scene.lights) THEN Color_black
    ELSE Color_add(DirectColor(scene, frame, scene.lights[i]),
                   DirectSum(scene, frame, i + 1))

\* The frames whose lights were summed and to which nothing else was added
\* yet: front-facing hits before their reflection is added.
JustLit == {i \in 1 .. Len(tstack) : tstack[i].pc \in {"reflect", "reflect_ret"}}

\* C23: on a front-facing hit, a light adds its shaded color exactly when
\* no primitive other than the hit one lies on the shadow ray from the hit
\* point toward the light at a distance <= the distance of the light; a
\* primitive beyond the light does not block, and the hit shape never
\* shadows itself.
C23_LitIffUnblocked ==
    \A i \in JustLit : tstack[i].total_color = DirectSum(tscene, tstack[i], 1)

\* The scenes of the shadow rays: a sphere the rays along x hit from the
\* left, a sphere further left, and a light between the two or left of both.
ShadowShapes == <<Sphere(Point(4, 2, 0), 1), Sphere(Point(0 - 3, 2, 0), 1)>>

ShadowLights ==
    {<<>>,
     <<Light(Point(1, 2, 0), Color_white)>>,
     <<Light(Point(0 - 7, 2, 0), Color_white)>>}

\* Scene::new, the add_primitive and add_light calls of a parse, and
\* build_space_partition.
ShadowSetup ==
    /\ trace_pc = "idle"
    /\ \E surfaces \in [1 .. Len(ShadowShapes) -> TraceSurfaces],
          background \in TraceBackgrounds, lights \in ShadowLights :
         tscene' = [background |-> background, lights |-> lights,
                    shapes |-> ShadowShapes,
                    surfaces |-> surfaces,
                    partition |-> from_primitives(ShadowShapes)]
    /\ trace_pc' = "ready"
    /\ UNCHANGED <<tstack, returned, tsteps>>

----------------------------------------------------------------------------
(* render.rs: render, and ppm.rs: write, on scenes without primitives,     *)
(* where no ray intersects anything and the ray of a pixel has no part in  *)
(* its color.                                                              *)

\* trace of render.rs (141-164) from the result of Scene::trace.
render_trace(trace_result, background) ==
    IF trace_result.some THEN Color_white ELSE background

\* A variant of the byte conversion that scales by 256.
ToByte_Scale256(c) ==
    IF c <= 0 THEN 0
    ELSE IF (c * 256) \div Unit > 255 THEN 255 ELSE (c * 256) \div Unit

\* (c * 255.9) as u8: the product truncated, below 0 to 0, above 255 to 255.
ToByte(c) ==
    IF c <= 0 THEN 0
    ELSE IF (c * 2559) \div (10 * Unit) > 255 THEN 255 ELSE (c * 2559) \div (10 * Unit)

\* The three bytes of a pixel (ppm.rs 20-22).
PixelBytes(color) == <<ToByte(color.r), ToByte(color.g), ToByte(color.b)>>

\* The rows ppm::write writes: pixel i of row j is get(i, j).
PpmRows(image) ==
    [j \in 1 .. image.height |->
        [i \in 1 .. image.width |-> PixelBytes(RenderTarget_get(image, i - 1, j - 1))]]

\* Every get of ppm::write stays in the buffer.
PpmInBuffer(image) ==
    \A i \in 0 .. image.width - 1, j \in 0 .. image.height - 1 :
        InBuffer(image, ValueIndex(image, i, j))

Quarters == Color(Unit \div 4, Unit \div 2, 3 * (Unit \div 4))
RenderBackgrounds == {Quarters, Color_black, Color_white, Color(2 * Unit, Unit \div 2, 0 - Unit)}

RenderInit ==
    /\ rbackground = Color_white
    /\ rtarget = [width |-> 0, height |-> 0, values |-> <<>>]
    /\ ri = 0
    /\ rj = 0
    /\ render_pc = "idle"
    /\ ppm = [header |-> <<>>, rows |-> <<>>]

\* The scene read (a `b` line and the resolution of the view) and the target
\* made for it.
RenderSetup ==
    /\ render_pc = "idle"
    /\ \E width \in 1 .. MaxSide, height \in 1 .. MaxSide,
          background \in RenderBackgrounds :
         /\ rbackground' = background
         /\ rtarget' = [width |-> width, height |-> height,
                        values |-> [k \in 1 .. width * height |-> Color_black]]
    /\ render_pc' = "rendering"
    /\ UNCHANGED <<ri, rj, ppm>>

\* One round of the inner loop of render (render.rs 129-136): the pixel
\* (ri, rj) is traced and set.
RenderPixel ==
    /\ render_pc = "rendering"
    /\ IF InBuffer(rtarget, ValueIndex(rtarget, ri, rj))
       THEN /\ rtarget' = RenderTarget_set(rtarget, ri, rj,
                              render_trace(None, rbackground))
            /\ ri' = IF ri + 1 < rtarget.width THEN ri + 1 ELSE 0
            /\ rj' = IF ri + 1 < rtarget.width THEN rj ELSE rj + 1
            /\ render_pc' = IF ri + 1 < rtarget.width \/ rj + 1 < rtarget.height
                            THEN "rendering" ELSE "rendered"
       ELSE /\ render_pc' = "panic"
            /\ UNCHANGED <<rtarget, ri, rj>>
    /\ UNCHANGED <<rbackground, ppm>>

\* ppm::write (ppm.rs 8-27)
PpmWrite ==
    /\ render_pc = "rendered"
    /\ IF PpmInBuffer(rtarget)
       THEN /\ ppm' = [header |-> <<rtarget.width, rtarget.height, 255>>,
                       rows |-> PpmRows(rtarget)]
            /\ render_pc' = "written"
       ELSE /\ render_pc' = "panic"
            /\ UNCHANGED ppm
    /\ UNCHANGED <<rbackground, rtarget, ri, rj>>

\* The scene of scenario 1 was rendered and written.
BackgroundOnly ==
    /\ render_pc = "written"
    /\ rtarget.width = 2 /\ rtarget.height = 2
    /\ rbackground = Quarters

\* C8 as stated: the background-only scene, resolution 2 2 and background
\* 0.25 0.5 0.75, is written as the bytes (64, 128, 191) in every pixel.
C8_AsStated ==
    BackgroundOnly =>
        \A j \in 1 .. 2, i \in 1 .. 2 : ppm.rows[j][i] = <<64, 128, 191>>

\* C8: the background-only scene, resolution 2 2 and background
\* 0.25 0.5 0.75, is written as the bytes (63, 127, 191) in every pixel,
\* each the floor of the channel times 255.9.
C8_BackgroundBytes ==
    BackgroundOnly =>
        /\ ppm.header = <<2, 2, 255>>
        /\ \A j \in 1 .. 2, i \in 1 .. 2 : ppm.rows[j][i] = <<63, 127, 191>>

C8_Witness ==
    /\ BackgroundOnly
    /\ ppm.rows = <<<< <<63, 127, 191>>, <<63, 127, 191>> >>,
                    << <<63, 127, 191>>, <<63, 127, 191>> >> >>

----------------------------------------------------------------------------
(* nff.rs.  A line is the sequence of its words; a read_line gives the     *)
(* bytes read, 0 at the end of the input, and the words of the line.       *)

Eof == [bytes |-> 0, words |-> <<>>]
Line(words) == [bytes |-> 1, words |-> words]

\* str::parse::<f32> and ::<u32> on the words of the model.
NumberWords == {"0", "1", "2", "3", "90"}
ParseNumber(word) ==
    CASE word = "0" -> 0
      [] word = "1" -> 1
      [] word = "2" -> 2
      [] word = "3" -> 3
      [] word = "90" -> 90

Args(words) == SubSeq(words, 2, Len(words))
AllNumbers(words) == \A i \in 1 .. Len(words) : words[i] \in NumberWords
Numbers(words) == [i \in 1 .. Len(words) |-> ParseNumber(words[i])]

\* parse_values: "panic" on a wrong word count, "err" on a word that is
\* no number, else "ok" with the values.
parse_values(words, start_word, count) ==
    IF Len(words) # start_word + count THEN [kind |-> "panic", values |-> <<>>]
    ELSE IF ~AllNumbers(SubSeq(words, start_word + 1, Len(words)))
    THEN [kind |-> "err", values |-> <<>>]
    ELSE [kind |-> "ok", values |-> Numbers(SubSeq(words, start_word + 1, Len(words)))]

\* A color of whole channel values.
ReadColor(v, k) == Color(v[k] * Unit, v[k + 1] * Unit, v[k + 2] * Unit)

\* parse_background
parse_background(args) == ReadColor(Numbers(args), 1)

\* A surface: its shading and its properties.
Surface(shading, properties) == [shading |-> shading, properties |-> properties]

\* The surface `read` starts with (nff.rs 352-360).
DefaultSurface == Surface("Phong", Phong(Color_white, Unit, 0, 1, 0, 1, 1))

\* An Rc<dyn Surface>: Rc::new allocates an object of its own, told from
\* every other by rc.  The object of the default surface is 0, the object a
\* fill allocates is numbered by the line of the `f` command.
Rc_new_Alias(rc, surface) ==
    [rc |-> 0, shading |-> surface.shading, properties |-> surface.properties]
Rc_new(rc, surface) ==
    [rc |-> rc, shading |-> surface.shading, properties |-> surface.properties]

\* parse_fill from the values of its arguments.
FillFrom(phong, v) ==
    Surface(IF phong THEN "Phong" ELSE "BlinnPhong",
            Phong(ReadColor(v, 1), v[4] * Unit, v[5] * Unit, v[6], v[7] * Unit, v[8], 1))
parse_fill(phong, args) == FillFrom(phong, Numbers(args))

\* parse_white_light
parse_white_light(args) ==
    Light(Point(ParseNumber(args[1]), ParseNumber(args[2]), ParseNumber(args[3])),
          Color_white)

\* parse_colored_light
parse_colored_light(args) ==
    Light(Point(ParseNumber(args[1]), ParseNumber(args[2]), ParseNumber(args[3])),
          ReadColor(Numbers(args), 4))

\* parse_sphere
parse_sphere(args) ==
    Sphere(Point(ParseNumber(args[1]), ParseNumber(args[2]), ParseNumber(args[3])),
           ParseNumber(args[4]))

\* parse_cone_one_line, and the end of parse_cone, from the values.
ConeFrom(base_values, apex_values) ==
    Cone(Point(base_values[1], base_values[2], base_values[3]),
         Point(apex_values[1], apex_values[2], apex_values[3]),
         base_values[4], apex_values[4])
parse_cone_one_line(args) ==
    ConeFrom(Numbers(SubSeq(args, 1, 4)), Numbers(SubSeq(args, 5, 8)))

Primitive(shape, surface) == [shape |-> shape, surface |-> surface]

\* Scene::new
Scene_new == [background |-> Color_white, lights |-> <<>>, primitives |-> <<>>]

\* Scene::add_primitive
Scene_add_primitive(self, shape, surface) ==
    [self EXCEPT !.primitives = Append(@, Primitive(shape, surface))]

\* Scene::add_light
Scene_add_light(self, light) == [self EXCEPT !.lights = Append(@, light)]

\* The locals of parse_view, parse_polygon and parse_cone.
NoFields ==
    [from |-> None, at |-> None, up |-> None, angle |-> None,
     hither |-> None, res |-> None]
NoPartial == [fields |-> NoFields, vertex_count |-> 0, points |-> <<>>, base_values |-> <<>>]

ViewComplete(fields) ==
    /\ fields.from.some /\ fields.at.some /\ fields.up.some
    /\ fields.angle.some /\ fields.hither.some /\ fields.res.some

View(fields) ==
    [from |-> fields.from.val, at |-> fields.at.val, up |-> fields.up.val,
     angle |-> fields.angle.val, hither |-> fields.hither.val,
     width |-> fields.res.val[1], height |-> fields.res.val[2]]

\* The field a line of a `v` block sets, with the count of its values; a
\* line that starts with none of the six names sets nothing.
ViewNames == {"from", "at", "up", "angle", "hither", "resolution"}
ViewValueCount(name) ==
    CASE name \in {"from", "at", "up"} -> 3
      [] name \in {"angle", "hither"} -> 1
      [] name = "resolution" -> 2

SetField(fields, name, v) ==
    CASE name = "from" -> [fields EXCEPT !.from = Some(Point(v[1], v[2], v[3]))]
      [] name = "at" -> [fields EXCEPT !.at = Some(Point(v[1], v[2], v[3]))]
      [] name = "up" -> [fields EXCEPT !.up = Some(Vector(v[1], v[2], v[3]))]
      [] name = "angle" -> [fields EXCEPT !.angle = Some(v[1])]
      [] name = "hither" -> [fields EXCEPT !.hither = Some(v[1])]
      [] name = "resolution" -> [fields EXCEPT !.res = Some(<<v[1], v[2]>>)]

\* The lines of the inputs read, besides the fields of a `v` block: every
\* command, a polygon and a patch with too few vertices, a sphere with an
\* argument missing, a background that is no number, an unknown command, a
\* comment, a blank line and the data lines of a cone and a polygon.
OtherLines ==
    {<<"v">>, <<"b", "1", "0", "0">>, <<"b", "x", "0", "0">>,
     <<"f", "1", "0", "0", "1", "1", "1", "0", "1">>,
     <<"l", "0", "2", "0">>, <<"s", "0", "0", "0", "1">>, <<"s", "0", "0", "0">>,
     <<"c">>, <<"0", "0", "0", "1">>, <<"p", "3">>, <<"p", "2">>, <<"0", "1", "0">>,
     <<"pp", "3">>, <<"pp", "2">>, <<"0", "0", "0", "0", "0", "1">>,
     <<"x", "1">>, <<"#">>, <<>>}

\* The fields of a `v` block come in the order of the format.
FieldLines ==
    <<<<"from", "0", "0", "1">>, <<"at", "0", "0", "0">>, <<"up", "0", "1", "0">>,
      <<"angle", "90">>, <<"hither", "1">>, <<"resolution", "2", "2">>>>
FieldsSet(fields) ==
    Cardinality({name \in ViewNames :
        CASE name = "from" -> fields.from.some
          [] name = "at" -> fields.at.some
          [] name = "up" -> fields.up.some
          [] name = "angle" -> fields.angle.some
          [] name = "hither" -> fields.hither.some
          [] name = "resolution" -> fields.res.some})

\* What the next read_line can give.
StreamNext ==
    {Eof}
        \cup (IF nlines < MaxLines THEN {Line(w) : w \in OtherLines} ELSE {})
        \cup (IF nff_pc = "view" /\ FieldsSet(nff_partial.fields) < 6
              THEN {Line(FieldLines[FieldsSet(nff_partial.fields) + 1])} ELSE {})

IsFieldLine(r) == r.words # <<>> /\ r.words[1] \in ViewNames

\* The reader's variables after a step.
NffUpdate(view, scene, surface, pc, partial, out, last) ==
    /\ nff_view' = view
    /\ nff_scene' = scene
    /\ nff_surface' = surface
    /\ nff_pc' = pc
    /\ nff_partial' = partial
    /\ nff_out' = out
    /\ nff_last' = last

\* read returns: Ok, Err, or a panic unwinds it.
NffReturn(out, last) ==
    NffUpdate(nff_view, nff_scene, nff_surface, nff_pc, nff_partial, out, last)

\* A command changed the scene or the fill and the loop goes on.
NffContinue(scene, surface) ==
    NffUpdate(nff_view, scene, surface, "top", NoPartial, "running", "command")

\* The line is counted, unless it is a field of a `v` block.
NffCount(r) ==
    /\ nlines' = IF r.bytes = 0 \/ (nff_pc = "view" /\ IsFieldLine(r))
                 THEN nlines ELSE nlines + 1
    /\ nff_tokens' = IF nff_pc = "top" /\ r.bytes # 0 THEN r.words ELSE nff_tokens
    /\ UNCHANGED use_phong

NffInit ==
    /\ use_phong = TRUE
    /\ nff_view = None
    /\ nff_scene = Scene_new
    /\ nff_surface = Rc_new(0, DefaultSurface)
    /\ nff_pc = "idle"
    /\ nff_partial = NoPartial
    /\ nff_out = "running"
    /\ nff_last = "none"
    /\ nlines = 0
    /\ nff_tokens = <<>>

\* read is called (nff.rs 348-361).
NffStart ==
    /\ nff_pc = "idle"
    /\ use_phong' \in BOOLEAN
    /\ NffUpdate(None, Scene_new, Rc_new(0, DefaultSurface), "top", NoPartial,
                 "running", "none")
    /\ UNCHANGED <<nlines, nff_tokens>>

\* A variant of the last branch of read that returns an error.
ReadUnrecognized_Err == NffReturn("err", "unrecognized")

\* The last branch of read (nff.rs 408-410): the line is reported and the
\* loop goes on.
ReadUnrecognized ==
    NffUpdate(nff_view, nff_scene, nff_surface, "top", nff_partial, "running",
              "unrecognized")

\* A variant of the start of parse_polygon that does not test the count.
BeginPolygon_AnyCount(pc, args) ==
    IF args[1] \notin NumberWords THEN NffReturn("err", "command")
    ELSE NffUpdate(nff_view, nff_scene, nff_surface, pc,
                   [NoPartial EXCEPT !.vertex_count = ParseNumber(args[1])],
                   "running", "command")

\* `p` and `pp`: the vertex count is parsed and tested.
BeginPolygon(pc, args) ==
    IF args[1] \notin NumberWords THEN NffReturn("err", "command")
    ELSE IF ParseNumber(args[1]) < 3 THEN NffReturn("err", "command")
    ELSE NffUpdate(nff_view, nff_scene, nff_surface, pc,
                   [NoPartial EXCEPT !.vertex_count = ParseNumber(args[1])],
                   "running", "command")

\* The chain of tests on the command and the count of its arguments
\* (nff.rs 379-410).
Command(command, args) ==
    IF command = "v" /\ Len(args) = 0
    THEN NffUpdate(nff_view, nff_scene, nff_surface, "view", NoPartial,
                   "running", "command")
    ELSE IF command = "b" /\ Len(args) = 3
    THEN IF AllNumbers(args)
         THEN NffContinue([nff_scene EXCEPT !.background = parse_background(args)],
                          nff_surface)
         ELSE NffReturn("err", "command")
    ELSE IF command = "pp" /\ Len(args) = 1
    THEN BeginPolygon("patch", args)
    ELSE IF command = "p" /\ Len(args) = 1
    THEN BeginPolygon("polygon", args)
    ELSE IF command = "f" /\ Len(args) = 8
    THEN IF AllNumbers(args)
         THEN NffContinue(nff_scene, Rc_new(nlines + 1, parse_fill(use_phong, args)))
         ELSE NffReturn("err", "command")
    ELSE IF command = "l" /\ Len(args) = 3
    THEN IF AllNumbers(args)
         THEN NffContinue(Scene_add_light(nff_scene, parse_white_light(args)),
                          nff_surface)
         ELSE NffReturn("err", "command")
    ELSE IF command = "l" /\ Len(args) = 6
    THEN IF AllNumbers(args)
         THEN NffContinue(Scene_add_light(nff_scene, parse_colored_light(args)),
                          nff_surface)
         ELSE NffReturn("err", "command")
    ELSE IF command = "s" /\ Len(args) = 4
    THEN IF AllNumbers(args)
         THEN NffContinue(Scene_add_primitive(nff_scene, parse_sphere(args),
                                              nff_surface),
                          nff_surface)
         ELSE NffReturn("err", "command")
    ELSE IF command = "c" /\ Len(args) = 0
    THEN NffUpdate(nff_view, nff_scene, nff_surface, "cone_base", NoPartial,
                   "running", "command")
    ELSE IF command = "c" /\ Len(args) = 8
    THEN IF AllNumbers(args)
         THEN NffContinue(Scene_add_primitive(nff_scene, parse_cone_one_line(args),
                                              nff_surface),
                          nff_surface)
         ELSE NffReturn("err", "command")
    ELSE ReadUnrecognized

\* The loop of read on one line (nff.rs 363-411) and its end (413-420).
TopStep(r) ==
    IF r.bytes = 0
    THEN NffReturn(IF nff_view.some THEN "ok" ELSE "err", "eof")
    ELSE IF r.words = <<>> \/ r.words[1] = "#"
    THEN NffUpdate(nff_view, nff_scene, nff_surface, "top", nff_partial,
                   "running", "skipped")
    ELSE Command(r.words[1], Args(r.words))

NffReadTop ==
    /\ nff_pc = "top" /\ nff_out = "running"
    /\ \E r \in StreamNext : TopStep(r) /\ NffCount(r)

\* parse_view after a line set a field: the View is returned to read once
\* all six are there (nff.rs 143-155, 380).
AfterField(fields) ==
    IF ViewComplete(fields)
    THEN NffUpdate(Some(View(fields)), nff_scene, nff_surface, "top", NoPartial,
                   "running", "data")
    ELSE NffUpdate(nff_view, nff_scene, nff_surface, "view",
                   [nff_partial EXCEPT !.fields = fields], "running", "data")

\* A line of parse_view that starts with the name of a field, its values
\* parsed.
FieldStep(name, parsed) ==
    IF parsed.kind = "ok"
    THEN AfterField(SetField(nff_partial.fields, name, parsed.values))
    ELSE NffReturn(parsed.kind, "data")

\* The loop of parse_view on one line (nff.rs 110-156).
ViewStep(r) ==
    IF r.bytes = 0 THEN NffReturn("err", "eof")
    ELSE IF IsFieldLine(r)
    THEN FieldStep(r.words[1], parse_values(r.words, 1, ViewValueCount(r.words[1])))
    ELSE AfterField(nff_partial.fields)

NffReadView ==
    /\ nff_pc = "view" /\ nff_out = "running"
    /\ \E r \in StreamNext : ViewStep(r) /\ NffCount(r)

\* parse_polygon and parse_polygon_patch after a vertex: the polygon is
\* returned to read, and added to the scene, once all are there.
AfterVertex(points) ==
    IF Len(points) = nff_partial.vertex_count
    THEN NffContinue(Scene_add_primitive(nff_scene, Polygon(points), nff_surface),
                     nff_surface)
    ELSE NffUpdate(nff_view, nff_scene, nff_surface, nff_pc,
                   [nff_partial EXCEPT !.points = points], "running", "data")

\* The loop of parse_polygon (nff.rs 235-246) and parse_polygon_patch
\* (nff.rs 168-181) on one line, its values parsed.
VertexStep(r, parsed) ==
    IF r.bytes = 0 THEN NffReturn("err", "eof")
    ELSE IF parsed.kind = "ok"
    THEN AfterVertex(Append(nff_partial.points, parsed.values))
    ELSE NffReturn(parsed.kind, "data")

NffReadVertex ==
    /\ nff_pc \in {"polygon", "patch"} /\ nff_out = "running"
    /\ \E r \in StreamNext :
         /\ VertexStep(r, parse_values(r.words, 0, IF nff_pc = "polygon" THEN 3 ELSE 6))
         /\ NffCount(r)

\* parse_cone on one of its two lines, the values parsed: the count of
\* bytes read is not looked at, and at the end of the input the line is empty.
ConeStep(r, parsed) ==
    IF parsed.kind # "ok"
    THEN NffReturn(parsed.kind, IF r.bytes = 0 THEN "eof" ELSE "data")
    ELSE IF nff_pc = "cone_base"
    THEN NffUpdate(nff_view, nff_scene, nff_surface, "cone_apex",
                   [nff_partial EXCEPT !.base_values = parsed.values],
                   "running", "data")
    ELSE NffContinue(Scene_add_primitive(nff_scene,
                         ConeFrom(nff_partial.base_values, parsed.values),
                         nff_surface),
                     nff_surface)

NffReadCone ==
    /\ nff_pc \in {"cone_base", "cone_apex"} /\ nff_out = "running"
    /\ \E r \in StreamNext : ConeStep(r, parse_values(r.words, 0, 4)) /\ NffCount(r)

\* C9: when the input ends and no `v` block was completed, read returns
\* an error.
C9_NoViewIsError ==
    (nff_last = "eof" /\ ~nff_view.some) => nff_out = "err"

\* C10: a line whose command and argument count match no known command
\* leaves the view, the scene and the current fill as they were, raises no
\* error, and the reader goes on with the next line.
C10_UnrecognizedIgnored ==
    [][(nff_pc = "top" /\ nff_last' = "unrecognized" /\ nlines' = nlines + 1)
          => /\ nff_view' = nff_view
             /\ nff_scene' = nff_scene
             /\ nff_surface' = nff_surface
             /\ nff_out' = "running"
             /\ nff_pc' = "top"]_vars

\* An unrecognized line was read after a view, a light, a fill and a sphere,
\* and the reader is still running.
C10_Witness ==
    /\ nff_last = "unrecognized"
    /\ nff_out = "running" /\ nff_pc = "top"
    /\ nff_view.some
    /\ nff_scene.background # Color_white
    /\ nff_scene.primitives # <<>>
    /\ nff_surface.properties # DefaultSurface.properties

\* A step of read that dispatches on a line of the input.
Dispatched == nff_pc = "top" /\ nlines' = nlines + 1

\* The step is a fill: an `f` with eight numbers.
FillStep ==
    /\ Dispatched /\ nff_tokens' # <<>> /\ nff_tokens'[1] = "f"
    /\ nff_last' = "command" /\ nff_out' = "running"

Surfaces(scene) == {scene.primitives[i].surface.rc : i \in 1 .. Len(scene.primitives)}

\* C11: a primitive added to the scene references the current surface, which
\* is the object allocated by the last fill before it (the default surface
\* when there was none): a fill allocates a new object and leaves every
\* primitive added before as it was, and no other step changes the current
\* surface, so that the primitives between two fills share one object.
C11_SurfaceOfLastFill ==
    [][nff_pc # "idle" =>
         /\ nff_scene'.primitives # nff_scene.primitives =>
               /\ nff_scene'.primitives =
                     Append(nff_scene.primitives,
                            nff_scene'.primitives[Len(nff_scene'.primitives)])
               /\ nff_scene'.primitives[Len(nff_scene'.primitives)].surface = nff_surface
               /\ nff_surface' = nff_surface
         /\ FillStep =>
               /\ nff_surface' = Rc_new(nlines', parse_fill(use_phong, Args(nff_tokens')))
               /\ nff_surface'.rc \notin Surfaces(nff_scene) \cup {nff_surface.rc}
               /\ nff_scene' = nff_scene
         /\ ~FillStep => nff_surface' = nff_surface]_vars

\* A sphere under the default surface, two under a first fill that share its
\* object, and a second fill after them.
C11_Witness ==
    /\ Len(nff_scene.primitives) = 3
    /\ nff_scene.primitives[1].surface.rc = 0
    /\ nff_scene.primitives[2].surface.rc > 0
    /\ nff_scene.primitives[3].surface = nff_scene.primitives[2].surface
    /\ nff_surface.rc > nff_scene.primitives[3].surface.rc

IsPolygon(shape) == "vertices" \in DOMAIN shape

\* C12: a `p n` or `pp n` with n < 3 makes read return an error and adds
\* nothing to the scene, and no polygon of the scene has fewer than three
\* vertices.
C12_ShortPolygonRejected ==
    /\ [](\A i \in 1 .. Len(nff_scene.primitives) :
            IsPolygon(nff_scene.primitives[i].shape)
                => Len(nff_scene.primitives[i].shape.vertices) >= 3)
    /\ [][(/\ Dispatched /\ Len(nff_tokens') = 2 /\ nff_tokens'[1] \in {"p", "pp"}
           /\ nff_tokens'[2] \in NumberWords /\ ParseNumber(nff_tokens'[2]) < 3)
              => nff_out' = "err" /\ nff_scene' = nff_scene]_vars

\* A `p 2` or a `pp 2` was rejected after a polygon of three vertices had
\* been added.
C12_Witness ==
    /\ nff_out = "err"
    /\ nff_tokens \in {<<"p", "2">>, <<"pp", "2">>}
    /\ \E i \in 1 .. Len(nff_scene.primitives) :
          IsPolygon(nff_scene.primitives[i].shape)

----------------------------------------------------------------------------
Init ==
    /\ BoxInit /\ KdInit /\ TargetInit /\ VecInit /\ TraceInit /\ RenderInit /\ NffInit
    /\ ConeInit /\ PolygonInit

NextBox ==
    BoxCall
        /\ UNCHANGED <<shapeVars, kdVars, targetVars, vecVars, traceVars, renderVars, nffVars>>

SpecBox == Init /\ [][NextBox]_vars

NextCone ==
    ConeCall
        /\ UNCHANGED <<boxVars, kdVars, targetVars, vecVars, traceVars, renderVars, nffVars, pq>>

SpecCone == Init /\ [][NextCone]_vars

NextPolygon ==
    PolygonCall
        /\ UNCHANGED <<boxVars, kdVars, targetVars, vecVars, traceVars, renderVars, nffVars, cq>>

SpecPolygon == Init /\ [][NextPolygon]_vars

NextKd ==
    \/ /\ AddPrimitive
       /\ UNCHANGED <<shapeVars, boxVars, targetVars, vecVars, traceVars, renderVars, nffVars>>
    \/ /\ build_space_partition
       /\ UNCHANGED <<shapeVars, boxVars, targetVars, vecVars, traceVars, renderVars, nffVars>>
    \/ /\ KdIntersect
       /\ UNCHANGED <<shapeVars, boxVars, targetVars, vecVars, traceVars, renderVars, nffVars>>

SpecKd == Init /\ [][NextKd]_vars

NextBuild ==
    \/ /\ AddShape
       /\ UNCHANGED <<shapeVars, boxVars, targetVars, vecVars, traceVars, renderVars, nffVars>>
    \/ /\ build_space_partition
       /\ UNCHANGED <<shapeVars, boxVars, targetVars, vecVars, traceVars, renderVars, nffVars>>

SpecBuild == Init /\ [][NextBuild]_vars

NextNest ==
    \/ /\ AddNested
       /\ UNCHANGED <<shapeVars, boxVars, targetVars, vecVars, traceVars, renderVars, nffVars>>
    \/ /\ build_space_partition
       /\ UNCHANGED <<shapeVars, boxVars, targetVars, vecVars, traceVars, renderVars, nffVars>>

SpecNest == Init /\ [][NextNest]_vars

NextTraverse ==
    \/ /\ AddTraversed
       /\ UNCHANGED <<shapeVars, boxVars, targetVars, vecVars, traceVars, renderVars, nffVars>>
    \/ /\ build_space_partition
       /\ UNCHANGED <<shapeVars, boxVars, targetVars, vecVars, traceVars, renderVars, nffVars>>
    \/ /\ TraverseIntersect
       /\ UNCHANGED <<shapeVars, boxVars, targetVars, vecVars, traceVars, renderVars, nffVars>>

SpecTraverse == Init /\ [][NextTraverse]_vars

NextTarget ==
    \/ /\ TargetNew
       /\ UNCHANGED <<shapeVars, boxVars, kdVars, vecVars, traceVars, renderVars, nffVars>>
    \/ /\ TargetSet
       /\ UNCHANGED <<shapeVars, boxVars, kdVars, vecVars, traceVars, renderVars, nffVars>>
    \/ /\ TargetGet
       /\ UNCHANGED <<shapeVars, boxVars, kdVars, vecVars, traceVars, renderVars, nffVars>>

SpecTarget == Init /\ [][NextTarget]_vars

NextVec ==
    VecCall
        /\ UNCHANGED <<shapeVars, boxVars, kdVars, targetVars, traceVars, renderVars, nffVars>>

SpecVec == Init /\ [][NextVec]_vars

NextTrace ==
    \/ /\ TraceSetup
       /\ UNCHANGED <<shapeVars, boxVars, kdVars, targetVars, vecVars, renderVars, nffVars>>
    \/ /\ Scene_trace
       /\ UNCHANGED <<shapeVars, boxVars, kdVars, targetVars, vecVars, renderVars, nffVars>>
    \/ /\ SubTraceEnter
       /\ UNCHANGED <<shapeVars, boxVars, kdVars, targetVars, vecVars, renderVars, nffVars>>
    \/ /\ SubTraceReflect
       /\ UNCHANGED <<shapeVars, boxVars, kdVars, targetVars, vecVars, renderVars, nffVars>>
    \/ /\ SubTraceReflected
       /\ UNCHANGED <<shapeVars, boxVars, kdVars, targetVars, vecVars, renderVars, nffVars>>
    \/ /\ SubTraceRefract
       /\ UNCHANGED <<shapeVars, boxVars, kdVars, targetVars, vecVars, renderVars, nffVars>>
    \/ /\ SubTraceRefracted
       /\ UNCHANGED <<shapeVars, boxVars, kdVars, targetVars, vecVars, renderVars, nffVars>>
    \/ /\ SubTraceClamp
       /\ UNCHANGED <<shapeVars, boxVars, kdVars, targetVars, vecVars, renderVars, nffVars>>

SpecTrace == Init /\ [][NextTrace]_vars

NextShadow ==
    \/ /\ ShadowSetup
       /\ UNCHANGED <<shapeVars, boxVars, kdVars, targetVars, vecVars, renderVars, nffVars>>
    \/ /\ Scene_trace
       /\ UNCHANGED <<shapeVars, boxVars, kdVars, targetVars, vecVars, renderVars, nffVars>>
    \/ /\ SubTraceEnter
       /\ UNCHANGED <<shapeVars, boxVars, kdVars, targetVars, vecVars, renderVars, nffVars>>
    \/ /\ SubTraceReflect
       /\ UNCHANGED <<shapeVars, boxVars, kdVars, targetVars, vecVars, renderVars, nffVars>>
    \/ /\ SubTraceReflected
       /\ UNCHANGED <<shapeVars, boxVars, kdVars, targetVars, vecVars, renderVars, nffVars>>
    \/ /\ SubTraceRefract
       /\ UNCHANGED <<shapeVars, boxVars, kdVars, targetVars, vecVars, renderVars, nffVars>>
    \/ /\ SubTraceRefracted
       /\ UNCHANGED <<shapeVars, boxVars, kdVars, targetVars, vecVars, renderVars, nffVars>>
    \/ /\ SubTraceClamp
       /\ UNCHANGED <<shapeVars, boxVars, kdVars, targetVars, vecVars, renderVars, nffVars>>

SpecShadow == Init /\ [][NextShadow]_vars

\* A sub_trace in progress takes its next step.
Advance == trace_pc = "tracing" /\ tsteps < MaxTraceSteps /\ tsteps' = tsteps + 1

\* sub_trace runs to completion: no step of it waits on anything.
SpecTraceFair == SpecTrace /\ WF_tsteps(Advance)

NextRender ==
    \/ /\ RenderSetup
       /\ UNCHANGED <<shapeVars, boxVars, kdVars, targetVars, vecVars, traceVars, nffVars>>
    \/ /\ RenderPixel
       /\ UNCHANGED <<shapeVars, boxVars, kdVars, targetVars, vecVars, traceVars, nffVars>>
    \/ /\ PpmWrite
       /\ UNCHANGED <<shapeVars, boxVars, kdVars, targetVars, vecVars, traceVars, nffVars>>

SpecRender == Init /\ [][NextRender]_vars

NextNff ==
    \/ /\ NffStart
       /\ UNCHANGED <<shapeVars, boxVars, kdVars, targetVars, vecVars, traceVars, renderVars>>
    \/ /\ NffReadTop
       /\ UNCHANGED <<shapeVars, boxVars, kdVars, targetVars, vecVars, traceVars, renderVars>>
    \/ /\ NffReadView
       /\ UNCHANGED <<shapeVars, boxVars, kdVars, targetVars, vecVars, traceVars, renderVars>>
    \/ /\ NffReadVertex
       /\ UNCHANGED <<shapeVars, boxVars, kdVars, targetVars, vecVars, traceVars, renderVars>>
    \/ /\ NffReadCone
       /\ UNCHANGED <<shapeVars, boxVars, kdVars, targetVars, vecVars, traceVars, renderVars>>

SpecNff == Init /\ [][NextNff]_vars

=============================================================================
